---- MODULE Spec2Model ----
(***************************************************************************)
(* Similarity and ranking engine of boats-shared-packages.                 *)
(*                                                                         *)
(* Two matching modules are modelled side by side:                         *)
(*   packages/core/src/utils/boatMatching.ts        (names as in source)   *)
(*   packages/core/src/utils/boat-matching.utils.ts (names prefixed utils_)*)
(* together with packages/core/src/utils/similarity.utils.ts.  The feature *)
(* cache of TensorFlowService, withRetry of network.utils.ts, the calls of *)
(* OpenAIService, the requests of network.utils.ts, loadModel, the tokens  *)
(* of AuthApiClient and the useBoatComparison hook are state machines of   *)
(* their own, each with its own specification.                             *)
(*                                                                         *)
(* Numbers are exact rationals [n, d] (d > 0, lowest terms); the rounding  *)
(* of IEEE doubles is not modelled.  Strings are sequences of              *)
(* one-character strings.  An optional field is a sequence of length 0     *)
(* (undefined) or 1 (the value).                                           *)
(***************************************************************************)
EXTENDS Integers, Sequences, FiniteSets, TLC

VARIABLES
  call,            \* the arguments of a call of one of the pure functions
  ret,             \* its return value
  featureCache,    \* TensorFlowService.featureCache: image url -> feature vector
  model,           \* TensorFlowService.model is loaded
  extraction,      \* the extractImageFeatures calls in progress, one per caller
  settled,         \* urls whose extraction has returned since the last clear
  cleared,         \* urls for which no call was started since the last clear
  retries,         \* withRetry: the `retries` argument of the current invocation
  delay,           \* withRetry: the `delay` argument of the current invocation
  attempt,         \* withRetry: where the invocation stands, and what fn has done
  openai,          \* OpenAIService: the analyzeBoatImage / compareBoats call in progress
  request,         \* network.utils and fetchUtils: the request in progress
  loader,          \* loadModel of TensorFlowService and of tensorflow.utils
  auth,            \* AuthApiClient: the token storage and the calls in progress
  hook             \* useBoatComparison: the hook's state and the pending responses

callVars == <<call, ret>>
serviceVars == <<featureCache, model, extraction, settled, cleared>>
retryVars == <<retries, delay, attempt>>
clientVars == <<openai, request, loader, auth, hook>>
vars == <<call, ret, featureCache, model, extraction, settled, cleared,
          retries, delay, attempt, openai, request, loader, auth, hook>>

----------------------------------------------------------------------------
(* Exact rational arithmetic standing for JavaScript numbers.              *)

Abs(x) == IF x < 0 THEN -x ELSE x

RECURSIVE GCD(_, _)
GCD(a, b) == IF b = 0 THEN a ELSE GCD(b, a % b)

Rat(n, d) ==
  LET s == IF d < 0 THEN -1 ELSE 1
      g == GCD(Abs(n), Abs(d))
  IN  [n |-> (s * n) \div g, d |-> (s * d) \div g]

Zero == [n |-> 0, d |-> 1]
One == [n |-> 1, d |-> 1]
Int2Rat(i) == [n |-> i, d |-> 1]

RAdd(a, b) == Rat(a.n * b.d + b.n * a.d, a.d * b.d)
RSub(a, b) == Rat(a.n * b.d - b.n * a.d, a.d * b.d)
RMul(a, b) == Rat(a.n * b.n, a.d * b.d)
RDiv(a, b) == Rat(a.n * b.d, a.d * b.n)
RLe(a, b) == a.n * b.d <= b.n * a.d
RLt(a, b) == a.n * b.d < b.n * a.d
RMax(a, b) == IF RLe(a, b) THEN b ELSE a
RMin(a, b) == IF RLe(a, b) THEN a ELSE b
RFloor(a) == a.n \div a.d
InUnit(a) == RLe(Zero, a) /\ RLe(a, One)

IMax(a, b) == IF a >= b THEN a ELSE b
IMin(a, b) == IF a <= b THEN a ELSE b

----------------------------------------------------------------------------
(* Optional values and JavaScript truthiness.                              *)

None == <<>>
Some(v) == <<v>>
Present(o) == o # <<>>

\* `x && ...` on an optional number: undefined and 0 are falsy
TruthyNum(o) == Present(o) /\ o[1] # 0
\* `x && ...` on an optional string: undefined and "" are falsy
TruthyStr(o) == Present(o) /\ o[1] # <<>>
\* `x || ''`
OrEmpty(o) == IF TruthyStr(o) THEN o[1] ELSE <<>>
\* `x || []` and `x && ...` on an optional array: only undefined is falsy
OrEmptyList(o) == IF Present(o) THEN o[1] ELSE <<>>

----------------------------------------------------------------------------
(* Strings.                                                                *)

UpperCase ==
  <<"A", "B", "C", "D", "E", "F", "G", "H", "I", "J", "K", "L", "M",
    "N", "O", "P", "Q", "R", "S", "T", "U", "V", "W", "X", "Y", "Z">>

LowerCase ==
  <<"a", "b", "c", "d", "e", "f", "g", "h", "i", "j", "k", "l", "m",
    "n", "o", "p", "q", "r", "s", "t", "u", "v", "w", "x", "y", "z">>

\* upper-case letter |-> lower-case letter
LowerOf ==
  [c \in {UpperCase[i] : i \in 1..Len(UpperCase)} |->
     LowerCase[CHOOSE i \in 1..Len(UpperCase) : UpperCase[i] = c]]

toLowerChar(c) == IF c \in DOMAIN LowerOf THEN LowerOf[c] ELSE c

toLowerCase(s) == [i \in 1..Len(s) |-> toLowerChar(s[i])]

\* String.prototype.includes
includes(s, t) ==
  \E i \in 0..(Len(s) - Len(t)) : SubSeq(s, i + 1, i + Len(t)) = t

\* Array.prototype.includes
arrayIncludes(arr, x) == \E i \in 1..Len(arr) : arr[i] = x

IsSpace(c) == c = " "

RECURSIVE SkipSpaces(_)
SkipSpaces(s) ==
  IF s # <<>> /\ IsSpace(Head(s)) THEN SkipSpaces(Tail(s)) ELSE s

\* String.prototype.split(/\s+/)
RECURSIVE splitWs(_, _)
splitWs(s, cur) ==
  IF s = <<>> THEN <<cur>>
  ELSE IF IsSpace(Head(s)) THEN <<cur>> \o splitWs(SkipSpaces(s), <<>>)
  ELSE splitWs(Tail(s), Append(cur, Head(s)))

split(s) == splitWs(s, <<>>)

\* Array.prototype.filter
filter(arr, P(_)) == SelectSeq(arr, P)

\* Array.prototype.slice(0, limit) for limit >= 0
slice(arr, limit) == SubSeq(arr, 1, IMin(limit, Len(arr)))

\* new Set(array)
ToSet(arr) == {arr[i] : i \in 1..Len(arr)}

----------------------------------------------------------------------------
(* similarity.utils.ts                                                     *)

\* A vector is a sequence of integers.  The cosine dot/(sqrt(m1)*sqrt(m2))
\* is kept exactly as its sign and its square: value = sign * sqrt(sq).
RECURSIVE SumOver(_, _, _)
SumOver(v1, v2, i) ==
  IF i > Len(v1) THEN 0 ELSE v1[i] * v2[i] + SumOver(v1, v2, i + 1)

Sign(x) == IF x < 0 THEN -1 ELSE IF x = 0 THEN 0 ELSE 1

calculateCosineSimilarity(vector1, vector2) ==
  IF Len(vector1) # Len(vector2)
  THEN [threw |-> TRUE, sign |-> 0, sq |-> Zero]
  ELSE LET dotProduct == SumOver(vector1, vector2, 1)
           magnitude1 == SumOver(vector1, vector1, 1)
           magnitude2 == SumOver(vector2, vector2, 1)
       IN  IF magnitude1 = 0 \/ magnitude2 = 0
           THEN [threw |-> FALSE, sign |-> 0, sq |-> Zero]
           ELSE [threw |-> FALSE, sign |-> Sign(dotProduct),
                 sq |-> Rat(dotProduct * dotProduct, magnitude1 * magnitude2)]

\* The cosine value lies in [0,1]
CosineInUnit(c) == c.sign >= 0 /\ RLe(c.sq, One)

\* variant: two empty sets score 0
calculateJaccardSimilarity_EmptyZero(set1, set2) ==
  LET s1 == ToSet(set1)
      s2 == ToSet(set2)
  IN  IF Cardinality(s1 \cup s2) = 0 THEN Zero
      ELSE Rat(Cardinality(s1 \cap s2), Cardinality(s1 \cup s2))

calculateJaccardSimilarity(set1, set2) ==
  LET s1 == ToSet(set1)
      s2 == ToSet(set2)
      intersection == {item \in s1 : item \in s2}
      union == s1 \cup s2
  IN  IF Cardinality(s1) = 0 /\ Cardinality(s2) = 0 THEN One
      ELSE Rat(Cardinality(intersection), Cardinality(union))

RECURSIVE dp(_, _, _, _)
dp(str1, str2, i, j) ==
  IF j = 0 THEN i
  ELSE IF i = 0 THEN j
  ELSE IF str1[i] = str2[j] THEN dp(str1, str2, i - 1, j - 1)
  ELSE IMin(IMin(dp(str1, str2, i - 1, j) + 1, dp(str1, str2, i, j - 1) + 1),
            dp(str1, str2, i - 1, j - 1) + 1)

levenshteinDistance(str1, str2) == dp(str1, str2, Len(str1), Len(str2))

calculateStringSimilarity(str1, str2) ==
  IF str1 = str2 THEN One
  ELSE LET s1 == toLowerCase(str1)
           s2 == toLowerCase(str2)
           distance == levenshteinDistance(s1, s2)
           maxLength == IMax(Len(s1), Len(s2))
       IN  IF maxLength = 0 THEN One
           ELSE RSub(One, Rat(distance, maxLength))

RECURSIVE SumSquaredDiff(_, _, _)
SumSquaredDiff(v1, v2, i) ==
  IF i > Len(v1) THEN 0
  ELSE (v1[i] - v2[i]) * (v1[i] - v2[i]) + SumSquaredDiff(v1, v2, i + 1)

\* variant: no length check; the loop runs over the common prefix
calculateEuclideanDistance_Prefix(vector1, vector2) ==
  LET n == IMin(Len(vector1), Len(vector2))
  IN  [threw |-> FALSE,
       sq |-> SumSquaredDiff(SubSeq(vector1, 1, n), SubSeq(vector2, 1, n), 1)]

\* The distance Math.sqrt(sum) is kept as its square
calculateEuclideanDistance(vector1, vector2) ==
  IF Len(vector1) # Len(vector2)
  THEN [threw |-> TRUE, sq |-> 0]
  ELSE [threw |-> FALSE, sq |-> SumSquaredDiff(vector1, vector2, 1)]

----------------------------------------------------------------------------
(* TensorFlowService (class) and the module-level TensorFlow utilities     *)
(* (names prefixed tfutils_): the comparison functions.                    *)

\* A cosine result [half, sign, sq] stands for sign * sqrt(sq) when half is
\* FALSE and for (sign * sqrt(sq) + 1) / 2 when half is TRUE.
TensorFlowService_calculateCosineSimilarity(features1, features2) ==
  IF Len(features1) # Len(features2)
  THEN [threw |-> TRUE, half |-> FALSE, sign |-> 0, sq |-> Zero]
  ELSE LET dotProduct == SumOver(features1, features2, 1)
           magnitude1 == SumOver(features1, features1, 1)
           magnitude2 == SumOver(features2, features2, 1)
       IN  IF magnitude1 = 0 \/ magnitude2 = 0
           THEN [threw |-> FALSE, half |-> FALSE, sign |-> 0, sq |-> Zero]
           ELSE [threw |-> FALSE, half |-> TRUE, sign |-> Sign(dotProduct),
                 sq |-> Rat(dotProduct * dotProduct, magnitude1 * magnitude2)]

TensorFlowService_calculateEuclideanDistance(features1, features2) ==
  IF Len(features1) # Len(features2)
  THEN [threw |-> TRUE, sq |-> 0]
  ELSE [threw |-> FALSE, sq |-> SumSquaredDiff(features1, features2, 1)]

\* The arguments of the module-level functions are optional vectors:
\* `!features1 || !features2` rejects a missing one.
M_provided == "Feature vectors must be provided"
M_dimensions == "Feature vectors have different dimensions"

tfutils_calculateCosineSimilarity(features1, features2) ==
  IF ~Present(features1) \/ ~Present(features2)
  THEN [threw |-> TRUE, message |-> M_provided, half |-> FALSE, sign |-> 0, sq |-> Zero]
  ELSE IF Len(features1[1]) # Len(features2[1])
  THEN [threw |-> TRUE, message |-> M_dimensions, half |-> FALSE, sign |-> 0, sq |-> Zero]
  ELSE LET dotProduct == SumOver(features1[1], features2[1], 1)
           magnitude1 == SumOver(features1[1], features1[1], 1)
           magnitude2 == SumOver(features2[1], features2[1], 1)
       IN  IF magnitude1 = 0 \/ magnitude2 = 0
           THEN [threw |-> FALSE, message |-> "", half |-> FALSE, sign |-> 0, sq |-> Zero]
           ELSE [threw |-> FALSE, message |-> "", half |-> FALSE,
                 sign |-> Sign(dotProduct),
                 sq |-> Rat(dotProduct * dotProduct, magnitude1 * magnitude2)]

tfutils_calculateEuclideanDistance(features1, features2) ==
  IF ~Present(features1) \/ ~Present(features2)
  THEN [threw |-> TRUE, message |-> M_provided, sq |-> 0]
  ELSE IF Len(features1[1]) # Len(features2[1])
  THEN [threw |-> TRUE, message |-> M_dimensions, sq |-> 0]
  ELSE [threw |-> FALSE, message |-> "",
        sq |-> SumSquaredDiff(features1[1], features2[1], 1)]

----------------------------------------------------------------------------
(* boatMatching.ts                                                         *)

WeightKeys ==
  {"typeWeight", "lengthWeight", "featureWeight", "engineTypeWeight",
   "hullMaterialWeight", "nameWeight"}

DEFAULT_WEIGHTS ==
  [typeWeight |-> Rat(35, 100), lengthWeight |-> Rat(25, 100),
   featureWeight |-> Rat(15, 100), engineTypeWeight |-> Rat(10, 100),
   hullMaterialWeight |-> Rat(10, 100), nameWeight |-> Rat(5, 100)]

\* { ...DEFAULT_WEIGHTS, ...config }: config is a record over some of the keys
MergeWeights(config) ==
  [k \in WeightKeys |->
     IF k \in DOMAIN config THEN config[k] ELSE DEFAULT_WEIGHTS[k]]

\* models/boat.ts is not part of the sources; the normalisation is taken to be
\* the case folding of the categorical comparison
normalizeBoatType(t) == toLowerCase(t)

W_power == <<"p", "o", "w", "e", "r">>
W_sail == <<"s", "a", "i", "l">>
W_jet == <<"j", "e", "t">>
W_cabin == <<"c", "a", "b", "i", "n">>
W_outboard == <<"o", "u", "t", "b", "o", "a", "r", "d">>
W_inboard == <<"i", "n", "b", "o", "a", "r", "d">>

SameFamily(a, b, word) == includes(a, word) /\ includes(b, word)

TypeScore(boat1, boat2, weights) ==
  LET normalizedType1 == normalizeBoatType(OrEmpty(boat1.type))
      normalizedType2 == normalizeBoatType(OrEmpty(boat2.type))
  IN  IF normalizedType1 = normalizedType2 THEN weights.typeWeight
      ELSE IF \/ SameFamily(normalizedType1, normalizedType2, W_power)
              \/ SameFamily(normalizedType1, normalizedType2, W_sail)
              \/ SameFamily(normalizedType1, normalizedType2, W_jet)
              \/ SameFamily(normalizedType1, normalizedType2, W_cabin)
      THEN RDiv(weights.typeWeight, Int2Rat(2))
      ELSE Zero

\* variant: a missing length adds nothing
LengthScore_MissingAsZero(boat1, boat2, weights) ==
  IF TruthyNum(boat1.length) /\ TruthyNum(boat2.length)
  THEN LET lengthDiff == Abs(boat1.length[1] - boat2.length[1])
       IN  RMax(Zero, RSub(weights.lengthWeight, Rat(lengthDiff, 100)))
  ELSE Zero

\* variant: the length difference scales the weight instead of being
\* subtracted from it
LengthScore_Scaled(boat1, boat2, weights) ==
  IF TruthyNum(boat1.length) /\ TruthyNum(boat2.length)
  THEN LET lengthDiff == Abs(boat1.length[1] - boat2.length[1])
       IN  RMul(RMax(Zero, RSub(One, Rat(lengthDiff, 100))), weights.lengthWeight)
  ELSE RDiv(weights.lengthWeight, Int2Rat(3))

\* variant: a length missing on both boats counts as a full match
LengthScore_BothMissingFull(boat1, boat2, weights) ==
  IF TruthyNum(boat1.length) /\ TruthyNum(boat2.length)
  THEN LET lengthDiff == Abs(boat1.length[1] - boat2.length[1])
       IN  RMax(Zero, RSub(weights.lengthWeight, Rat(lengthDiff, 100)))
  ELSE IF ~TruthyNum(boat1.length) /\ ~TruthyNum(boat2.length)
  THEN weights.lengthWeight
  ELSE RDiv(weights.lengthWeight, Int2Rat(3))

LengthScore(boat1, boat2, weights) ==
  IF TruthyNum(boat1.length) /\ TruthyNum(boat2.length)
  THEN LET lengthDiff == Abs(boat1.length[1] - boat2.length[1])
       IN  RMax(Zero, RSub(weights.lengthWeight, Rat(lengthDiff, 100)))
  ELSE RDiv(weights.lengthWeight, Int2Rat(3))

FeatureMatches(f, f2) ==
  \/ includes(toLowerCase(f), toLowerCase(f2))
  \/ includes(toLowerCase(f2), toLowerCase(f))

FeatureScore(boat1, boat2, weights) ==
  LET features1 == OrEmptyList(boat1.features)
      features2 == OrEmptyList(boat2.features)
      IsCommon(f) == \E i \in 1..Len(features2) : FeatureMatches(f, features2[i])
      commonFeatures == filter(features1, IsCommon)
  IN  IF Len(features1) > 0 /\ Len(features2) > 0
      THEN RMul(Rat(Len(commonFeatures), IMax(Len(features1), Len(features2))),
                weights.featureWeight)
      ELSE RDiv(weights.featureWeight, Int2Rat(3))

EngineTypeScore(boat1, boat2, weights) ==
  IF TruthyStr(boat1.engineType) /\ TruthyStr(boat2.engineType)
  THEN LET engineType1 == toLowerCase(boat1.engineType[1])
           engineType2 == toLowerCase(boat2.engineType[1])
       IN  IF engineType1 = engineType2 THEN weights.engineTypeWeight
           ELSE IF \/ SameFamily(engineType1, engineType2, W_outboard)
                   \/ SameFamily(engineType1, engineType2, W_inboard)
                   \/ SameFamily(engineType1, engineType2, W_jet)
           THEN RDiv(weights.engineTypeWeight, Int2Rat(2))
           ELSE Zero
  ELSE RDiv(weights.engineTypeWeight, Int2Rat(3))

HullMaterialScore(boat1, boat2, weights) ==
  IF TruthyStr(boat1.hullMaterial) /\ TruthyStr(boat2.hullMaterial)
  THEN IF toLowerCase(boat1.hullMaterial[1]) = toLowerCase(boat2.hullMaterial[1])
       THEN weights.hullMaterialWeight
       ELSE Zero
  ELSE RDiv(weights.hullMaterialWeight, Int2Rat(3))

NameScore(boat1, boat2, weights) ==
  IF TruthyStr(boat1.name) /\ TruthyStr(boat2.name)
  THEN LET name1Words == split(toLowerCase(boat1.name[1]))
           name2Words == split(toLowerCase(boat2.name[1]))
           IsCommon(word) == arrayIncludes(name2Words, word) /\ Len(word) > 2
           commonWords == filter(name1Words, IsCommon)
       IN  IF Len(commonWords) > 0
           THEN RMin(weights.nameWeight,
                     RMul(Rat(Len(commonWords),
                              IMax(Len(name1Words), Len(name2Words))),
                          weights.nameWeight))
           ELSE Zero
  ELSE RDiv(weights.nameWeight, Int2Rat(4))

\* scoreBreakdown of calculateBoatSimilarity
scoreBreakdown(boat1, boat2, config) ==
  LET weights == MergeWeights(config)
  IN  [typeScore |-> TypeScore(boat1, boat2, weights),
       lengthScore |-> LengthScore(boat1, boat2, weights),
       featureScore |-> FeatureScore(boat1, boat2, weights),
       engineTypeScore |-> EngineTypeScore(boat1, boat2, weights),
       hullMaterialScore |-> HullMaterialScore(boat1, boat2, weights),
       nameScore |-> NameScore(boat1, boat2, weights)]

Clamp01(x) == RMax(Zero, RMin(One, x))

calculateBoatSimilarity(boat1, boat2, config) ==
  LET b == scoreBreakdown(boat1, boat2, config)
      similarity ==
        RAdd(RAdd(RAdd(RAdd(RAdd(b.typeScore, b.lengthScore), b.featureScore),
                       b.engineTypeScore), b.hullMaterialScore), b.nameScore)
  IN  Clamp01(similarity)

\* Array.prototype.sort with a comparator on a numeric key, descending; the
\* sort is stable, so entries with equal keys keep their order
\* variant: an entry is placed before the entries of equal key (not stable)
RECURSIVE InsertDesc_BeforeEqual(_, _, _)
InsertDesc_BeforeEqual(sorted, x, keys) ==
  IF sorted = <<>> THEN <<x>>
  ELSE IF RLe(keys[Head(sorted)], keys[x]) THEN <<x>> \o sorted
  ELSE <<Head(sorted)>> \o InsertDesc_BeforeEqual(Tail(sorted), x, keys)

RECURSIVE InsertDesc(_, _, _)
InsertDesc(sorted, x, keys) ==
  IF sorted = <<>> THEN <<x>>
  ELSE IF RLt(keys[Head(sorted)], keys[x]) THEN <<x>> \o sorted
  ELSE <<Head(sorted)>> \o InsertDesc(Tail(sorted), x, keys)

RECURSIVE SortedIndices(_, _)
SortedIndices(n, keys) ==
  IF n = 0 THEN <<>> ELSE InsertDesc(SortedIndices(n - 1, keys), n, keys)

\* keys[i] is the value the comparator reads from arr[i]
sortDesc(arr, keys) ==
  LET idx == SortedIndices(Len(arr), keys)
  IN  [j \in 1..Len(arr) |-> arr[idx[j]]]

\* variant: the target boat is not excluded from the pool
findSimilarBoats_NoExclusion(targetBoat, boatPool, config, limit) ==
  IF Len(boatPool) = 0 THEN <<>>
  ELSE LET candidates == boatPool
           boatsWithScores ==
             [i \in 1..Len(candidates) |->
                [boat |-> candidates[i],
                 matchPercentage |->
                   RFloor(RMul(calculateBoatSimilarity(targetBoat, candidates[i], config),
                               Int2Rat(100)))]]
           keys == [i \in 1..Len(candidates) |->
                      Int2Rat(boatsWithScores[i].matchPercentage)]
       IN  slice(sortDesc(boatsWithScores, keys), limit)

\* variant: an empty pool is answered with the target itself
findSimilarBoats_EmptyPoolTarget(targetBoat, boatPool, config, limit) ==
  IF Len(boatPool) = 0 THEN <<[boat |-> targetBoat, matchPercentage |-> 100]>>
  ELSE LET NotTarget(boat) == boat.id # targetBoat.id
           candidates == filter(boatPool, NotTarget)
           boatsWithScores ==
             [i \in 1..Len(candidates) |->
                [boat |-> candidates[i],
                 matchPercentage |->
                   RFloor(RMul(calculateBoatSimilarity(targetBoat, candidates[i], config),
                               Int2Rat(100)))]]
           keys == [i \in 1..Len(candidates) |->
                      Int2Rat(boatsWithScores[i].matchPercentage)]
       IN  slice(sortDesc(boatsWithScores, keys), limit)

findSimilarBoats(targetBoat, boatPool, config, limit) ==
  IF Len(boatPool) = 0 THEN <<>>
  ELSE LET NotTarget(boat) == boat.id # targetBoat.id
           candidates == filter(boatPool, NotTarget)
           boatsWithScores ==
             [i \in 1..Len(candidates) |->
                [boat |-> candidates[i],
                 matchPercentage |->
                   RFloor(RMul(calculateBoatSimilarity(targetBoat, candidates[i], config),
                               Int2Rat(100)))]]
           keys == [i \in 1..Len(candidates) |->
                      Int2Rat(boatsWithScores[i].matchPercentage)]
       IN  slice(sortDesc(boatsWithScores, keys), limit)

----------------------------------------------------------------------------
(* boat-matching.utils.ts                                                  *)

utils_weights ==
  [manufacturer |-> Rat(15, 100), model |-> Rat(20, 100), year |-> Rat(5, 100),
   dimensions |-> Rat(15, 100), features |-> Rat(25, 100),
   category |-> Rat(20, 100)]

DimensionNames == <<"length", "beam", "draft", "weight">>

\* one `if (boat1.x && boat2.x)` block of calculateDimensionSimilarity
DimensionComparable(boat1, boat2, dim) ==
  TruthyNum(boat1[dim]) /\ TruthyNum(boat2[dim])

DimensionRatio(boat1, boat2, dim) ==
  Rat(IMin(boat1[dim][1], boat2[dim][1]), IMax(boat1[dim][1], boat2[dim][1]))

RECURSIVE DimensionTotals(_, _, _)
DimensionTotals(boat1, boat2, i) ==
  IF i > Len(DimensionNames) THEN [comparableDimensions |-> 0, totalDimensionScore |-> Zero]
  ELSE LET rest == DimensionTotals(boat1, boat2, i + 1)
       IN  IF DimensionComparable(boat1, boat2, DimensionNames[i])
           THEN [comparableDimensions |-> rest.comparableDimensions + 1,
                 totalDimensionScore |->
                   RAdd(DimensionRatio(boat1, boat2, DimensionNames[i]),
                        rest.totalDimensionScore)]
           ELSE rest

\* returns None for null
calculateDimensionSimilarity(boat1, boat2) ==
  LET t == DimensionTotals(boat1, boat2, 1)
  IN  IF t.comparableDimensions > 0
      THEN Some(RDiv(t.totalDimensionScore, Int2Rat(t.comparableDimensions)))
      ELSE None

\* The six comparison blocks of calculateBoatSimilarity, in source order:
\* whether the block is entered, and the score it computes when it is
utils_components(boat1, boat2) ==
  LET manufacturerApplies == TruthyStr(boat1.manufacturer) /\ TruthyStr(boat2.manufacturer)
      modelApplies == TruthyStr(boat1.model) /\ TruthyStr(boat2.model)
      yearApplies == TruthyNum(boat1.year) /\ TruthyNum(boat2.year)
      dimensionScore == calculateDimensionSimilarity(boat1, boat2)
      featuresApply == Present(boat1.features) /\ Present(boat2.features)
      categoryApplies == Present(boat1.categoryTags) /\ Present(boat2.categoryTags)
  IN  <<[field |-> "manufacturer",
         applies |-> manufacturerApplies,
         score |-> IF manufacturerApplies
                   THEN calculateStringSimilarity(boat1.manufacturer[1],
                                                  boat2.manufacturer[1])
                   ELSE Zero,
         weight |-> utils_weights.manufacturer],
        [field |-> "model",
         applies |-> modelApplies,
         score |-> IF modelApplies
                   THEN calculateStringSimilarity(boat1.model[1], boat2.model[1])
                   ELSE Zero,
         weight |-> utils_weights.model],
        [field |-> "year",
         applies |-> yearApplies,
         score |-> IF yearApplies
                   THEN RMax(Zero, RSub(One, Rat(Abs(boat1.year[1] - boat2.year[1]), 5)))
                   ELSE Zero,
         weight |-> utils_weights.year],
        [field |-> "dimensions",
         applies |-> Present(dimensionScore),
         score |-> IF Present(dimensionScore) THEN dimensionScore[1] ELSE Zero,
         weight |-> utils_weights.dimensions],
        [field |-> "features",
         applies |-> featuresApply,
         score |-> IF featuresApply
                   THEN calculateJaccardSimilarity(boat1.features[1], boat2.features[1])
                   ELSE Zero,
         weight |-> utils_weights.features],
        [field |-> "category",
         applies |-> categoryApplies,
         score |-> IF categoryApplies
                   THEN calculateJaccardSimilarity(boat1.categoryTags[1],
                                                   boat2.categoryTags[1])
                   ELSE Zero,
         weight |-> utils_weights.category]>>

RECURSIVE utils_totals(_, _)
utils_totals(components, i) ==
  IF i > Len(components) THEN [totalScore |-> Zero, totalWeight |-> Zero]
  ELSE LET rest == utils_totals(components, i + 1)
           c == components[i]
       IN  IF c.applies
           THEN [totalScore |-> RAdd(RMul(c.score, c.weight), rest.totalScore),
                 totalWeight |-> RAdd(c.weight, rest.totalWeight)]
           ELSE rest

utils_calculateBoatSimilarity(boat1, boat2) ==
  LET t == utils_totals(utils_components(boat1, boat2), 1)
  IN  IF RLt(Zero, t.totalWeight) THEN RDiv(t.totalScore, t.totalWeight) ELSE Zero

\* variant: the threshold filter is left out
utils_findSimilarBoats_NoThreshold(referenceBoat, boatDataset, similarityThreshold, limit) ==
  LET NotReference(boat) == boat.id # referenceBoat.id
      candidates == filter(boatDataset, NotReference)
      scored == [i \in 1..Len(candidates) |->
                   [boat |-> candidates[i],
                    similarityScore |->
                      utils_calculateBoatSimilarity(referenceBoat, candidates[i])]]
      keys == [i \in 1..Len(scored) |-> scored[i].similarityScore]
  IN  slice(sortDesc(scored, keys), limit)

utils_findSimilarBoats(referenceBoat, boatDataset, similarityThreshold, limit) ==
  LET NotReference(boat) == boat.id # referenceBoat.id
      candidates == filter(boatDataset, NotReference)
      scored == [i \in 1..Len(candidates) |->
                   [boat |-> candidates[i],
                    similarityScore |->
                      utils_calculateBoatSimilarity(referenceBoat, candidates[i])]]
      AboveThreshold(result) == RLe(similarityThreshold, result.similarityScore)
      kept == filter(scored, AboveThreshold)
      keys == [i \in 1..Len(kept) |-> kept[i].similarityScore]
  IN  slice(sortDesc(kept, keys), limit)

\* shared body of findBoatsByModel / findBoatsByManufacturer
FindBoatsByField(query, boats, threshold, fieldName) ==
  LET HasField(boat) == TruthyStr(boat[fieldName])
      withField == filter(boats, HasField)
      scored == [i \in 1..Len(withField) |->
                   [boat |-> withField[i],
                    relevance |->
                      calculateStringSimilarity(query, OrEmpty(withField[i][fieldName]))]]
      AboveThreshold(result) == RLe(threshold, result.relevance)
      kept == filter(scored, AboveThreshold)
      keys == [i \in 1..Len(kept) |-> kept[i].relevance]
  IN  sortDesc(kept, keys)

findBoatsByModel(modelQuery, boats, threshold) ==
  FindBoatsByField(modelQuery, boats, threshold, "model")

findBoatsByManufacturer(manufacturerQuery, boats, threshold) ==
  FindBoatsByField(manufacturerQuery, boats, threshold, "manufacturer")

----------------------------------------------------------------------------
(* Inputs of the calls.                                                    *)

MaxDim == 2
MaxPool == 3
MaxLimit == 2

Components == {-1, 0, 1}

RECURSIVE VectorsOfLen(_)
VectorsOfLen(n) ==
  IF n = 0 THEN {<<>>}
  ELSE {Append(v, c) : v \in VectorsOfLen(n - 1), c \in Components}

Vectors == UNION {VectorsOfLen(n) : n \in 0..MaxDim}

F_gps == <<"G", "P", "S">>
F_gpsplus == <<"g", "p", "s", "+">>
F_radar == <<"R", "a", "d", "a", "r">>
F_sonar == <<"S", "o", "n", "a", "r">>

FeatureLists ==
  {<<>>, <<F_gps>>, <<F_gps, F_radar>>, <<F_gps, F_sonar>>, <<F_gps, F_gpsplus>>,
   <<F_gps, F_gps>>, <<F_radar, F_sonar>>}

N_sea == <<"s", "e", "a">>
N_ray == <<"r", "a", "y">>
N_ab == <<"a", "b">>
Sp == <<" ">>

Strings ==
  {<<>>, N_sea, N_ray, N_ab, <<"S", "e", "a">>, <<"B", "a", "y">>,
   <<"b", "a", "y", "s">>}

Names ==
  {N_sea \o Sp \o N_ray, N_sea \o Sp \o N_sea \o Sp \o N_ray, N_ab,
   N_sea \o Sp \o N_ab, <<"S", "e", "a">> \o Sp \o N_ray}

T_Sail == <<"S", "a", "i", "l">>
T_sailcat == W_sail \o <<"c", "a", "t">>
T_Yacht == <<"Y", "a", "c", "h", "t">>

OptionOf(S) == {None} \cup {Some(x) : x \in S}

\* the values each boat attribute ranges over
FieldDomain ==
  [name |-> OptionOf(Names \cup {<<>>}),
   type |-> OptionOf({W_sail, T_Sail, T_sailcat, W_power}),
   length |-> OptionOf({0, 40, 42, 90}),
   features |-> OptionOf(FeatureLists),
   engineType |-> OptionOf({W_outboard, W_inboard, W_jet}),
   hullMaterial |-> OptionOf({<<"f">>, <<"F">>, <<"a">>}),
   manufacturer |-> OptionOf({<<"B", "a", "y">>, <<"b", "a", "y">>, N_ray, <<>>}),
   model |-> OptionOf({<<"a", "1">>, <<"a", "2">>, <<"b", "2">>}),
   year |-> OptionOf({2018, 2020, 2024}),
   beam |-> OptionOf({2, 4}),
   draft |-> OptionOf({1, 2}),
   weight |-> OptionOf({0, 3, 6}),
   categoryTags |-> OptionOf({<<>>, <<N_ab>>, <<N_ab, N_sea>>})]

FieldNames == DOMAIN FieldDomain

\* a boat with every attribute present
FullBoat ==
  [id |-> 1, name |-> Some(N_sea \o Sp \o N_ray), type |-> Some(W_sail),
   length |-> Some(42), features |-> Some(<<F_gps, F_radar>>),
   engineType |-> Some(W_outboard), hullMaterial |-> Some(<<"f">>),
   manufacturer |-> Some(<<"B", "a", "y">>), model |-> Some(<<"a", "1">>),
   year |-> Some(2020), beam |-> Some(4), draft |-> Some(2),
   weight |-> Some(6), categoryTags |-> Some(<<N_ab>>)]

\* a boat with every optional attribute undefined
EmptyBoat ==
  [id |-> 2, name |-> None, type |-> None, length |-> None, features |-> None,
   engineType |-> None, hullMaterial |-> None, manufacturer |-> None,
   model |-> None, year |-> None, beam |-> None, draft |-> None,
   weight |-> None, categoryTags |-> None]

\* pairs of boats that agree with a base boat except on one attribute, which
\* takes every pair of values of its domain
BoatPairs ==
  UNION {{<<[base EXCEPT ![f] = x, !.id = 1], [base EXCEPT ![f] = y, !.id = 2]>> :
            x \in FieldDomain[f], y \in FieldDomain[f]} :
         base \in {FullBoat, EmptyBoat}, f \in FieldNames}

\* every boat compared with itself
SelfPairs ==
  UNION {{<<[base EXCEPT ![f] = x], [base EXCEPT ![f] = x]>> : x \in FieldDomain[f]} :
         base \in {FullBoat, EmptyBoat}, f \in FieldNames}

\* the two boats of the worked example: only type, length and features set
ExampleA ==
  [EmptyBoat EXCEPT !.id = 1, !.type = Some(T_Yacht), !.length = Some(42),
                    !.features = Some(<<F_gps, F_radar>>)]

ExampleB ==
  [EmptyBoat EXCEPT !.id = 2, !.type = Some(T_Yacht), !.length = Some(40),
                    !.features = Some(<<F_gps, F_sonar>>)]

ComparedPairs ==
  BoatPairs \cup SelfPairs \cup {<<ExampleA, ExampleB>>, <<ExampleB, ExampleA>>}

ExampleWeights ==
  [typeWeight |-> Rat(35, 100), lengthWeight |-> Rat(25, 100),
   featureWeight |-> Rat(15, 100), engineTypeWeight |-> Zero,
   hullMaterialWeight |-> Zero, nameWeight |-> Zero]

ZeroWeights == [k \in WeightKeys |-> Zero]

Configs ==
  {<<>>,
   ExampleWeights,
   [k \in WeightKeys |-> Rat(1, 2)],
   [typeWeight |-> Int2Rat(2)],
   ZeroWeights}

\* candidate boats: the target itself, two exact copies under other ids, a
\* boat without manufacturer that differs in length, model and features, and a
\* boat that has little more than a manufacturer
PoolBoats ==
  {FullBoat,
   [FullBoat EXCEPT !.id = 2],
   [FullBoat EXCEPT !.id = 3],
   [FullBoat EXCEPT !.id = 4, !.length = Some(40), !.model = Some(<<"a", "2">>),
                    !.features = Some(<<F_gps, F_sonar>>), !.manufacturer = None],
   [EmptyBoat EXCEPT !.id = 5, !.name = Some(N_ab), !.type = Some(W_power),
                     !.manufacturer = Some(N_ray)]}

RECURSIVE PoolsOfLen(_)
PoolsOfLen(n) ==
  IF n = 0 THEN {<<>>}
  ELSE {Append(p, b) : p \in PoolsOfLen(n - 1), b \in PoolBoats}

Pools == UNION {PoolsOfLen(n) : n \in 0..MaxPool}

Targets == {FullBoat, [FullBoat EXCEPT !.id = 3, !.length = Some(40)]}

Limits == 0..MaxLimit

Thresholds == {Zero, Rat(7, 10), One}

Queries == {<<"a", "1">>, <<"A", "2">>, N_ray, <<"b", "a", "y">>}

----------------------------------------------------------------------------
(* The state machine: a caller holds the arguments of one call; the call   *)
(* runs to completion and leaves its return value.                         *)

Pending == [done |-> FALSE]
Returned(v) == [done |-> TRUE, value |-> v]

\* What a call leaves in the array it was given.  Array.prototype.sort is the
\* only method used that works in place, and in all four functions its
\* receiver is the new array built by filter and map (in boatMatching.ts of
\* `{...boat}` copies), never the argument.
\* variant: the pool itself is sorted by descending similarity
findSimilarBoats_boatPool_SortedInPlace(targetBoat, boatPool, config, limit) ==
  sortDesc(boatPool,
           [i \in 1..Len(boatPool) |->
              calculateBoatSimilarity(targetBoat, boatPool[i], config)])

findSimilarBoats_boatPool(targetBoat, boatPool, config, limit) == boatPool

utils_findSimilarBoats_boatDataset(referenceBoat, boatDataset, similarityThreshold, limit) ==
  boatDataset

findBoatsByModel_boats(modelQuery, boats, threshold) == boats

findBoatsByManufacturer_boats(manufacturerQuery, boats, threshold) == boats

\* the arguments a caller can pass to each exported function
InitCall ==
  \/ \E v1 \in Vectors, v2 \in Vectors :
       call = [op |-> "calculateCosineSimilarity", vector1 |-> v1, vector2 |-> v2]
  \/ \E v1 \in Vectors, v2 \in Vectors :
       call = [op |-> "calculateEuclideanDistance", vector1 |-> v1, vector2 |-> v2]
  \/ \E v1 \in Vectors, v2 \in Vectors :
       call = [op |-> "TensorFlowService_calculateCosineSimilarity",
               features1 |-> v1, features2 |-> v2]
  \/ \E v1 \in Vectors, v2 \in Vectors :
       call = [op |-> "TensorFlowService_calculateEuclideanDistance",
               features1 |-> v1, features2 |-> v2]
  \/ \E v1 \in OptionOf(Vectors), v2 \in OptionOf(Vectors) :
       call = [op |-> "tfutils_calculateCosineSimilarity",
               features1 |-> v1, features2 |-> v2]
  \/ \E v1 \in OptionOf(Vectors), v2 \in OptionOf(Vectors) :
       call = [op |-> "tfutils_calculateEuclideanDistance",
               features1 |-> v1, features2 |-> v2]
  \/ \E a \in FeatureLists, b \in FeatureLists :
       call = [op |-> "calculateJaccardSimilarity", set1 |-> a, set2 |-> b]
  \/ \E a \in Strings, b \in Strings :
       call = [op |-> "calculateStringSimilarity", str1 |-> a, str2 |-> b]
  \/ \E p \in ComparedPairs, c \in Configs :
       call = [op |-> "calculateBoatSimilarity", boat1 |-> p[1], boat2 |-> p[2],
               config |-> c]
  \/ \E p \in ComparedPairs :
       call = [op |-> "utils_calculateBoatSimilarity", boat1 |-> p[1], boat2 |-> p[2]]
  \/ \E t \in Targets, p \in Pools, c \in {<<>>, ZeroWeights}, l \in Limits :
       call = [op |-> "findSimilarBoats", targetBoat |-> t, boatPool |-> p,
               config |-> c, limit |-> l]
  \/ \E t \in Targets, p \in Pools, th \in Thresholds, l \in Limits :
       call = [op |-> "utils_findSimilarBoats", referenceBoat |-> t,
               boatDataset |-> p, similarityThreshold |-> th, limit |-> l]
  \/ \E q \in Queries, p \in Pools, th \in Thresholds :
       call = [op |-> "findBoatsByModel", modelQuery |-> q, boats |-> p,
               threshold |-> th]
  \/ \E q \in Queries, p \in Pools, th \in Thresholds :
       call = [op |-> "findBoatsByManufacturer", manufacturerQuery |-> q,
               boats |-> p, threshold |-> th]

\* no pure call is under way
NoCall == call = [op |-> "none"] /\ ret = Pending

\* the callers of extractImageFeatures whose calls may overlap
Callers == {"first", "second"}

NoExtraction == [pc |-> "idle"]

\* a TensorFlowService that was just constructed
ServiceInit ==
  /\ featureCache = <<>>
  /\ model = FALSE
  /\ extraction = [c \in Callers |-> NoExtraction]
  /\ settled = {}
  /\ cleared = {}

\* withRetry is not called
NoRetry == retries = 0 /\ delay = 0 /\ attempt = [pc |-> "none"]

NoOpenAI == openai = [pc |-> "none"]
NoRequest == request = [pc |-> "none"]
NoLoader == loader = [pc |-> "none"]
NoAuth == auth = [pc |-> "none"]
NoHook == hook = [pc |-> "none"]
ClientsIdle == NoOpenAI /\ NoRequest /\ NoLoader /\ NoAuth /\ NoHook

Init == InitCall /\ ret = Pending /\ ServiceInit /\ NoRetry /\ ClientsIdle

CallCosine ==
  /\ call.op = "calculateCosineSimilarity"
  /\ ~ret.done
  /\ ret' = Returned(calculateCosineSimilarity(call.vector1, call.vector2))
  /\ UNCHANGED <<call, serviceVars, retryVars, clientVars>>

CallEuclidean ==
  /\ call.op = "calculateEuclideanDistance"
  /\ ~ret.done
  /\ ret' = Returned(calculateEuclideanDistance(call.vector1, call.vector2))
  /\ UNCHANGED <<call, serviceVars, retryVars, clientVars>>

CallServiceCosine ==
  /\ call.op = "TensorFlowService_calculateCosineSimilarity"
  /\ ~ret.done
  /\ ret' = Returned(TensorFlowService_calculateCosineSimilarity(call.features1,
                                                                 call.features2))
  /\ UNCHANGED <<call, serviceVars, retryVars, clientVars>>

CallServiceEuclidean ==
  /\ call.op = "TensorFlowService_calculateEuclideanDistance"
  /\ ~ret.done
  /\ ret' = Returned(TensorFlowService_calculateEuclideanDistance(call.features1,
                                                                  call.features2))
  /\ UNCHANGED <<call, serviceVars, retryVars, clientVars>>

CallTfutilsCosine ==
  /\ call.op = "tfutils_calculateCosineSimilarity"
  /\ ~ret.done
  /\ ret' = Returned(tfutils_calculateCosineSimilarity(call.features1, call.features2))
  /\ UNCHANGED <<call, serviceVars, retryVars, clientVars>>

CallTfutilsEuclidean ==
  /\ call.op = "tfutils_calculateEuclideanDistance"
  /\ ~ret.done
  /\ ret' = Returned(tfutils_calculateEuclideanDistance(call.features1, call.features2))
  /\ UNCHANGED <<call, serviceVars, retryVars, clientVars>>

CallJaccard ==
  /\ call.op = "calculateJaccardSimilarity"
  /\ ~ret.done
  /\ ret' = Returned(calculateJaccardSimilarity(call.set1, call.set2))
  /\ UNCHANGED <<call, serviceVars, retryVars, clientVars>>

CallStringSimilarity ==
  /\ call.op = "calculateStringSimilarity"
  /\ ~ret.done
  /\ ret' = Returned(calculateStringSimilarity(call.str1, call.str2))
  /\ UNCHANGED <<call, serviceVars, retryVars, clientVars>>

CallBoatSimilarity ==
  /\ call.op = "calculateBoatSimilarity"
  /\ ~ret.done
  /\ ret' = Returned(calculateBoatSimilarity(call.boat1, call.boat2, call.config))
  /\ UNCHANGED <<call, serviceVars, retryVars, clientVars>>

CallUtilsBoatSimilarity ==
  /\ call.op = "utils_calculateBoatSimilarity"
  /\ ~ret.done
  /\ ret' = Returned(utils_calculateBoatSimilarity(call.boat1, call.boat2))
  /\ UNCHANGED <<call, serviceVars, retryVars, clientVars>>

CallFindSimilarBoats ==
  /\ call.op = "findSimilarBoats"
  /\ ~ret.done
  /\ ret' = Returned(findSimilarBoats(call.targetBoat, call.boatPool, call.config, call.limit))
  /\ call' = [call EXCEPT !.boatPool =
                findSimilarBoats_boatPool(call.targetBoat, call.boatPool,
                                          call.config, call.limit)]
  /\ UNCHANGED <<serviceVars, retryVars, clientVars>>

CallUtilsFindSimilarBoats ==
  /\ call.op = "utils_findSimilarBoats"
  /\ ~ret.done
  /\ ret' = Returned(utils_findSimilarBoats(call.referenceBoat, call.boatDataset,
                   call.similarityThreshold, call.limit))
  /\ call' = [call EXCEPT !.boatDataset =
                utils_findSimilarBoats_boatDataset(call.referenceBoat, call.boatDataset,
                                                   call.similarityThreshold, call.limit)]
  /\ UNCHANGED <<serviceVars, retryVars, clientVars>>

CallFindBoatsByModel ==
  /\ call.op = "findBoatsByModel"
  /\ ~ret.done
  /\ ret' = Returned(findBoatsByModel(call.modelQuery, call.boats, call.threshold))
  /\ call' = [call EXCEPT !.boats =
                findBoatsByModel_boats(call.modelQuery, call.boats, call.threshold)]
  /\ UNCHANGED <<serviceVars, retryVars, clientVars>>

CallFindBoatsByManufacturer ==
  /\ call.op = "findBoatsByManufacturer"
  /\ ~ret.done
  /\ ret' = Returned(findBoatsByManufacturer(call.manufacturerQuery, call.boats, call.threshold))
  /\ call' = [call EXCEPT !.boats =
                findBoatsByManufacturer_boats(call.manufacturerQuery, call.boats,
                                              call.threshold)]
  /\ UNCHANGED <<serviceVars, retryVars, clientVars>>

Next ==
  \/ CallCosine
  \/ CallEuclidean
  \/ CallServiceCosine
  \/ CallServiceEuclidean
  \/ CallTfutilsCosine
  \/ CallTfutilsEuclidean
  \/ CallJaccard
  \/ CallStringSimilarity
  \/ CallBoatSimilarity
  \/ CallUtilsBoatSimilarity
  \/ CallFindSimilarBoats
  \/ CallUtilsFindSimilarBoats
  \/ CallFindBoatsByModel
  \/ CallFindBoatsByManufacturer

Spec == Init /\ [][Next]_vars

----------------------------------------------------------------------------
(* Properties.                                                             *)

Done(op) == ret.done /\ call.op = op

IsComparison ==
  ret.done /\ call.op \in {"calculateBoatSimilarity", "utils_calculateBoatSimilarity"}

\* every attribute of the boat is present and non-empty
AllPresent(boat) ==
  /\ TruthyStr(boat.name) /\ TruthyStr(boat.type) /\ TruthyNum(boat.length)
  /\ Present(boat.features) /\ boat.features[1] # <<>>
  /\ TruthyStr(boat.engineType) /\ TruthyStr(boat.hullMaterial)
  /\ TruthyStr(boat.manufacturer) /\ TruthyStr(boat.model)
  /\ TruthyNum(boat.year) /\ TruthyNum(boat.beam) /\ TruthyNum(boat.draft)
  /\ TruthyNum(boat.weight)
  /\ Present(boat.categoryTags) /\ boat.categoryTags[1] # <<>>

\* C1 (Range): every score returned by calculateCosineSimilarity,
\* calculateJaccardSimilarity, calculateStringSimilarity and by
\* calculateBoatSimilarity of both matching modules lies in [0,1].
C1_Range ==
  /\ Done("calculateCosineSimilarity") /\ ~ret.value.threw => CosineInUnit(ret.value)
  /\ Done("calculateJaccardSimilarity") => InUnit(ret.value)
  /\ Done("calculateStringSimilarity") => InUnit(ret.value)
  /\ Done("calculateBoatSimilarity") => InUnit(ret.value)
  /\ Done("utils_calculateBoatSimilarity") => InUnit(ret.value)

\* C2 (Symmetry): each comparator and calculateBoatSimilarity of both matching
\* modules returns the same value when its two arguments are swapped.
C2_Symmetry ==
  /\ Done("calculateCosineSimilarity") =>
       ret.value = calculateCosineSimilarity(call.vector2, call.vector1)
  /\ Done("calculateJaccardSimilarity") =>
       ret.value = calculateJaccardSimilarity(call.set2, call.set1)
  /\ Done("calculateStringSimilarity") =>
       ret.value = calculateStringSimilarity(call.str2, call.str1)
  /\ Done("calculateBoatSimilarity") =>
       ret.value = calculateBoatSimilarity(call.boat2, call.boat1, call.config)
  /\ Done("utils_calculateBoatSimilarity") =>
       ret.value = utils_calculateBoatSimilarity(call.boat2, call.boat1)

\* C3 (Self-identity): a boat on which all compared fields are present and
\* non-empty, compared with itself under the default weights, scores exactly 1.
C3_SelfIdentity ==
  IsComparison /\ call.boat1 = call.boat2 /\ AllPresent(call.boat1)
    /\ (call.op = "calculateBoatSimilarity" => call.config = <<>>)
  => ret.value = One

Third(w) == RDiv(w, Int2Rat(3))

Sum6(b) ==
  RAdd(RAdd(RAdd(RAdd(RAdd(b.typeScore, b.lengthScore), b.featureScore),
                 b.engineTypeScore), b.hullMaterialScore), b.nameScore)

SumWeights(w) ==
  RAdd(RAdd(RAdd(RAdd(RAdd(w.typeWeight, w.lengthWeight), w.featureWeight),
                 w.engineTypeWeight), w.hullMaterialWeight), w.nameWeight)

\* the attribute is undefined on at least one of the two boats
AbsentOnEither(boat1, boat2, f) == ~Present(boat1[f]) \/ ~Present(boat2[f])

\* no attribute of the boat holds a falsy value (0, '') other than undefined
NoFalsyValue(boat) ==
  /\ \A f \in {"name", "type", "engineType", "hullMaterial", "manufacturer", "model"} :
       Present(boat[f]) => TruthyStr(boat[f])
  /\ \A f \in {"length", "year", "beam", "draft", "weight"} :
       Present(boat[f]) => TruthyNum(boat[f])

\* the score boat-matching.utils.ts would return if a block that is not entered
\* counted weight/3 in the numerator and its weight in the denominator
RECURSIVE UncertaintyTotals(_, _)
UncertaintyTotals(components, i) ==
  IF i > Len(components) THEN [totalScore |-> Zero, totalWeight |-> Zero]
  ELSE LET rest == UncertaintyTotals(components, i + 1)
           c == components[i]
       IN  [totalScore |->
              RAdd(IF c.applies THEN RMul(c.score, c.weight) ELSE Third(c.weight),
                   rest.totalScore),
            totalWeight |-> RAdd(c.weight, rest.totalWeight)]

MissingAwareBreakdown(boat1, boat2, w) ==
  LET Missing(f) == ~TruthyStr(boat1[f]) \/ ~TruthyStr(boat2[f])
  IN  [typeScore |->
         IF ~TruthyStr(boat1.type) /\ ~TruthyStr(boat2.type) THEN w.typeWeight
         ELSE TypeScore(boat1, boat2, w),
       lengthScore |->
         IF ~TruthyNum(boat1.length) \/ ~TruthyNum(boat2.length)
         THEN Third(w.lengthWeight) ELSE LengthScore(boat1, boat2, w),
       featureScore |->
         IF OrEmptyList(boat1.features) = <<>> \/ OrEmptyList(boat2.features) = <<>>
         THEN Third(w.featureWeight) ELSE FeatureScore(boat1, boat2, w),
       engineTypeScore |->
         IF Missing("engineType") THEN Third(w.engineTypeWeight)
         ELSE EngineTypeScore(boat1, boat2, w),
       hullMaterialScore |->
         IF Missing("hullMaterial") THEN Third(w.hullMaterialWeight)
         ELSE HullMaterialScore(boat1, boat2, w),
       nameScore |->
         IF Missing("name") THEN RDiv(w.nameWeight, Int2Rat(4))
         ELSE NameScore(boat1, boat2, w)]

UtilsFields ==
  {"manufacturer", "model", "year", "length", "beam", "draft", "weight",
   "features", "categoryTags"}

C5_Aggregation ==
  /\ Done("calculateBoatSimilarity") =>
       LET w == MergeWeights(call.config)
           b == scoreBreakdown(call.boat1, call.boat2, call.config)
       IN  ret.value = IF SumWeights(w) = Zero THEN Zero
                       ELSE Clamp01(RDiv(Sum6(b), SumWeights(w)))
  /\ Done("utils_calculateBoatSimilarity") =>
       LET t == utils_totals(utils_components(call.boat1, call.boat2), 1)
       IN  ret.value = IF t.totalWeight = Zero THEN Zero
                       ELSE Clamp01(RDiv(t.totalScore, t.totalWeight))

IsExampleCall(op) ==
  Done(op) /\ call.boat1 = ExampleA /\ call.boat2 = ExampleB

IsFindSimilar == ret.done /\ call.op \in {"findSimilarBoats", "utils_findSimilarBoats"}

\* the target (reference) boat and the candidate pool of a findSimilarBoats call
QueryBoat ==
  IF call.op = "findSimilarBoats" THEN call.targetBoat ELSE call.referenceBoat

CandidatePool ==
  IF call.op = "findSimilarBoats" THEN call.boatPool ELSE call.boatDataset

\* C7 (Self-exclusion): no boat whose id equals the target's id appears in the
\* result of findSimilarBoats, in either module.
C7_SelfExclusion ==
  IsFindSimilar =>
    \A i \in 1..Len(ret.value) : ret.value[i].boat.id # QueryBoat.id

\* C7 witness: the pool held the target's id twice and the search returned
\* other boats
C7_Witness ==
  /\ IsFindSimilar
  /\ Cardinality({i \in 1..Len(CandidatePool) : CandidatePool[i].id = QueryBoat.id}) >= 2
  /\ Len(ret.value) > 0

\* the score findSimilarBoats ranks a candidate by: the integer matchPercentage
\* in boatMatching.ts, the similarity score in boat-matching.utils.ts
RankScore(boat) ==
  IF call.op = "findSimilarBoats"
  THEN Int2Rat(RFloor(RMul(calculateBoatSimilarity(call.targetBoat, boat, call.config),
                           Int2Rat(100))))
  ELSE utils_calculateBoatSimilarity(call.referenceBoat, boat)

\* the rank score of every pool position, as a sequence
PoolScores == <<>> \o [q \in 1..Len(CandidatePool) |-> RankScore(CandidatePool[q])]

ResultScore(entry) ==
  IF call.op = "findSimilarBoats" THEN Int2Rat(entry.matchPercentage)
  ELSE entry.similarityScore

\* the pool positions whose boat is neither the target nor below the threshold
EligibleIn(scores) ==
  {q \in 1..Len(CandidatePool) :
     /\ CandidatePool[q].id # QueryBoat.id
     /\ call.op = "utils_findSimilarBoats" => RLe(call.similarityThreshold, scores[q])}

\* boat a is ranked before boat b: higher score, or equal score and lower id
BeforeById(sa, ida, sb, idb) == RLt(sb, sa) \/ (sa = sb /\ ida <= idb)

BeforeInPool(scores, p, q) ==
  RLt(scores[q], scores[p]) \/ (scores[p] = scores[q] /\ p < q)

IsFindByField == ret.done /\ call.op \in {"findBoatsByModel", "findBoatsByManufacturer"}

\* C9 (Threshold filter): findSimilarBoats (boat-matching.utils.ts),
\* findBoatsByModel and findBoatsByManufacturer never return an entry whose
\* score is below the threshold, and findSimilarBoats omits a non-reference
\* boat with score >= threshold only when `limit` boats, none scoring lower
\* than it, are returned.
C9_ThresholdFilter ==
  /\ IsFindByField =>
       \A i \in 1..Len(ret.value) : RLe(call.threshold, ret.value[i].relevance)
  /\ Done("utils_findSimilarBoats") =>
       LET scores == PoolScores
           eligible == EligibleIn(scores)
       IN  /\ \A i \in 1..Len(ret.value) :
                /\ \E q \in 1..Len(CandidatePool) :
                     /\ CandidatePool[q] = ret.value[i].boat
                     /\ scores[q] = ret.value[i].similarityScore
                /\ RLe(call.similarityThreshold, ret.value[i].similarityScore)
           /\ \A q \in eligible :
                LET b == CandidatePool[q]
                    inPool == Cardinality({p \in eligible : CandidatePool[p] = b})
                    inResult == Cardinality({i \in 1..Len(ret.value) : ret.value[i].boat = b})
                IN  inResult < inPool =>
                      /\ Len(ret.value) = call.limit
                      /\ \A i \in 1..Len(ret.value) :
                           RLe(scores[q], ret.value[i].similarityScore)

\* C9 witness: a search returned boats while one candidate was below the
\* threshold and an eligible one was cut off by the limit
C9_Witness ==
  /\ Done("utils_findSimilarBoats")
  /\ Len(ret.value) > 0
  /\ Cardinality(EligibleIn(PoolScores)) > Len(ret.value)
  /\ \E q \in 1..Len(CandidatePool) :
       /\ CandidatePool[q].id # QueryBoat.id
       /\ ~RLe(call.similarityThreshold, PoolScores[q])

----------------------------------------------------------------------------
(* Vector comparisons.                                                     *)

VectorOps ==
  {"calculateCosineSimilarity", "calculateEuclideanDistance",
   "TensorFlowService_calculateCosineSimilarity",
   "TensorFlowService_calculateEuclideanDistance"}

TfutilsOps == {"tfutils_calculateCosineSimilarity", "tfutils_calculateEuclideanDistance"}

\* the two vectors handed to a vector comparison (both given)
Vector1 ==
  IF call.op \in TfutilsOps THEN call.features1[1]
  ELSE IF "vector1" \in DOMAIN call THEN call.vector1 ELSE call.features1

Vector2 ==
  IF call.op \in TfutilsOps THEN call.features2[1]
  ELSE IF "vector2" \in DOMAIN call THEN call.vector2 ELSE call.features2

BothGiven ==
  call.op \in TfutilsOps => Present(call.features1) /\ Present(call.features2)

IsVectorComparison == ret.done /\ call.op \in VectorOps \cup TfutilsOps /\ BothGiven

\* the call failed on the length check
FailedOnLength ==
  /\ ret.value.threw
  /\ call.op \in TfutilsOps => ret.value.message = M_dimensions

\* C11 (Dimension mismatch): calculateCosineSimilarity and
\* calculateEuclideanDistance of similarity.utils.ts, of TensorFlowService and
\* of the TensorFlow utilities throw, returning no score, exactly when the two
\* vectors differ in length.
C11_DimensionMismatch ==
  IsVectorComparison =>
    /\ Len(Vector1) # Len(Vector2) => FailedOnLength
    /\ Len(Vector1) = Len(Vector2) => ~ret.value.threw

\* C11 witness: a distance was asked for two vectors of different lengths that
\* agree on their common prefix, and the call threw
C11_Witness ==
  /\ Done("calculateEuclideanDistance")
  /\ Len(call.vector1) = 1 /\ Len(call.vector2) = 2
  /\ call.vector1[1] = call.vector2[1]
  /\ ret.value.threw

\* the standard cosine of two vectors of equal length and non-zero magnitude,
\* as sign and square
StandardCosine(v1, v2) ==
  LET dot == SumOver(v1, v2, 1)
  IN  [sign |-> Sign(dot),
       sq |-> Rat(dot * dot, SumOver(v1, v1, 1) * SumOver(v2, v2, 1))]

IsHalved(c) == "half" \in DOMAIN c /\ c.half

RSign(r) == Sign(r.n)

\* the returned cosine c equals (x + 1) / 2.  When c stands for
\* y = c.sign * sqrt(c.sq), y = (x + 1)/2 forces y = (4y^2 + 1 - x^2)/4, a
\* rational t, and then x = 2t - 1.
IsMappedCosine(c, x) ==
  IF IsHalved(c) THEN c.sign = x.sign /\ c.sq = x.sq
  ELSE LET t == RDiv(RSub(RAdd(RMul(Int2Rat(4), c.sq), One), x.sq), Int2Rat(4))
       IN  /\ RSign(t) = c.sign
           /\ RMul(t, t) = c.sq
           /\ RSign(RSub(RMul(Int2Rat(2), t), One)) = x.sign

CosineOps ==
  {"calculateCosineSimilarity", "TensorFlowService_calculateCosineSimilarity",
   "tfutils_calculateCosineSimilarity"}

NonZero(v) == SumOver(v, v, 1) # 0

\* C12 (Cosine mapping): for two vectors of equal length (and non-zero
\* magnitude) every calculateCosineSimilarity returns (x + 1) / 2, x being the
\* standard cosine: 0 for opposite, 0.5 for orthogonal, 1 for parallel vectors.
C12_CosineMapping ==
  IsVectorComparison /\ call.op \in CosineOps
    /\ Len(Vector1) = Len(Vector2) /\ NonZero(Vector1) /\ NonZero(Vector2)
  => IsMappedCosine(ret.value, StandardCosine(Vector1, Vector2))

----------------------------------------------------------------------------
(* Feature sets and missing lengths.                                       *)

\* |a \cap b| / |a \cup b| of the sets of elements of two lists, 1 for two
\* empty sets
JaccardIndex(a, b) ==
  LET both == {x \in ToSet(a) : x \in ToSet(b)}
      either == ToSet(a) \cup ToSet(b)
  IN  IF either = {} THEN One ELSE Rat(Cardinality(both), Cardinality(either))

BothHaveFeatures == Present(call.boat1.features) /\ Present(call.boat2.features)

\* the feature score of the comparison that returned, as a fraction of the
\* feature weight
FeatureFraction ==
  IF call.op = "calculateBoatSimilarity"
  THEN scoreBreakdown(call.boat1, call.boat2, [featureWeight |-> One]).featureScore
  ELSE utils_components(call.boat1, call.boat2)[5].score

MatchedPositions(a, b) ==
  {i \in 1..Len(a) : \E j \in 1..Len(b) : FeatureMatches(a[i], b[j])}

LengthMissingOnOneSide ==
  /\ [call.boat1 EXCEPT !.length = None, !.id = 0]
       = [call.boat2 EXCEPT !.length = None, !.id = 0]
  /\ Present(call.boat1.length) # Present(call.boat2.length)

\* the score of the same pair with length missing on both boats
ScoreLengthMissingOnBoth ==
  LET b1 == [call.boat1 EXCEPT !.length = None]
      b2 == [call.boat2 EXCEPT !.length = None]
  IN  IF call.op = "calculateBoatSimilarity"
      THEN calculateBoatSimilarity(b1, b2, call.config)
      ELSE utils_calculateBoatSimilarity(b1, b2)

\* C14 (Absence smoothing), as claimed: otherwise identical boats score
\* strictly higher with length missing on both than with length missing on one.
C14_AbsenceSmoothing ==
  IsComparison /\ LengthMissingOnOneSide => RLt(ret.value, ScoreLengthMissingOnBoth)

\* C14 (Absence smoothing), amended: otherwise identical boats score exactly
\* the same with length missing on both as with length missing on one.
C14_AbsenceFlat ==
  IsComparison /\ LengthMissingOnOneSide => ret.value = ScoreLengthMissingOnBoth

\* C14 witness: boatMatching.ts compared, under the default weights, two boats
\* with every attribute set except the length of the first
C14_Witness ==
  /\ Done("calculateBoatSimilarity") /\ call.config = <<>>
  /\ LengthMissingOnOneSide
  /\ ~Present(call.boat1.length) /\ AllPresent(call.boat2)
  /\ RLt(Zero, ret.value) /\ RLt(ret.value, One)

----------------------------------------------------------------------------
(* Searches: the empty pool, and what a search does to its arguments.      *)

\* the call ended by throwing instead of returning a value
Raised == ret.done /\ "error" \in DOMAIN ret

\* C18 (Empty pool), as claimed: findSimilarBoats called with an empty
\* candidate pool fails with a validation error instead of returning a result.
C18_EmptyPoolFails ==
  IsFindSimilar /\ CandidatePool = <<>> => Raised

\* C18 (Empty pool), amended: findSimilarBoats called with an empty candidate
\* pool does not fail; it returns the empty list.
C18_EmptyPoolEmptyResult ==
  IsFindSimilar /\ CandidatePool = <<>> => ~Raised /\ ret.value = <<>>

\* C18 witness: boatMatching.ts was asked for up to MaxLimit boats of an empty
\* pool and has returned
C18_Witness ==
  Done("findSimilarBoats") /\ call.boatPool = <<>> /\ call.limit = MaxLimit

SearchOps ==
  {"findSimilarBoats", "utils_findSimilarBoats", "findBoatsByModel",
   "findBoatsByManufacturer"}

----------------------------------------------------------------------------
(* TensorFlowService: extractImageFeatures and its feature cache.  The     *)
(* module-level extractImageFeatures / imageFeatureCache of the TensorFlow *)
(* utilities take the same steps on their cache (has/get, set, clear).     *)
(* An async call runs without interruption between two awaits; calls of    *)
(* different callers interleave at the awaits.                             *)

MaxUrls == 2

ImageUrls == 1..MaxUrls

\* the feature vector MobileNet computes for the image behind a url; a url
\* stands for one image
FeatureOf(url) == <<url, 0 - url>>

\* Map: has, get, set, clear
EmptyMap == [u \in {} |-> <<>>]
MapHas(map, key) == key \in DOMAIN map
MapGet(map, key) == map[key]

\* variant: set drops the entries of all other keys
MapSet_DropOthers(map, key, value) == [u \in {key} |-> value]

MapSet(map, key, value) ==
  [u \in DOMAIN map \cup {key} |-> IF u = key THEN value ELSE map[u]]

\* a caller has no call running
Free(c) == extraction[c].pc \in {"idle", "returned", "threw"}

\* a caller's call has missed the cache and has not finished
InFlight(c) == extraction[c].pc \in {"loadModel", "loadImage", "data"}

ServiceStart == NoCall /\ ServiceInit /\ NoRetry /\ ClientsIdle

\* extractImageFeatures(imageUrl), up to its first await: a cache hit returns
\* the cached vector, a miss goes on to load the model
ExtractImageFeatures(c, imageUrl) ==
  /\ Free(c)
  /\ LET racing == {d \in Callers \ {c} :
                      InFlight(d) /\ extraction[d].imageUrl = imageUrl}
         started == [imageUrl |-> imageUrl,
                     ranInference |-> FALSE,
                     afterSettled |-> imageUrl \in settled,
                     afterClear |-> imageUrl \in cleared]
     IN  IF MapHas(featureCache, imageUrl)
         THEN /\ extraction' =
                   [extraction EXCEPT ![c] =
                      started @@ [pc |-> "returned", raced |-> FALSE,
                                  features |-> Some(MapGet(featureCache, imageUrl))]]
              /\ settled' = settled \cup {imageUrl}
         ELSE /\ extraction' =
                   [d \in Callers |->
                      IF d = c
                      THEN started @@ [pc |-> "loadModel", raced |-> racing # {},
                                       features |-> None]
                      ELSE IF d \in racing
                      THEN [extraction[d] EXCEPT !.raced = TRUE]
                      ELSE extraction[d]]
              /\ UNCHANGED settled
  /\ cleared' = cleared \ {imageUrl}
  /\ UNCHANGED <<featureCache, model, callVars, retryVars, clientVars>>

\* loadModel() resolves: the model is loaded now if it was not before
ModelLoaded(c) ==
  /\ extraction[c].pc = "loadModel"
  /\ model' = TRUE
  /\ extraction' = [extraction EXCEPT ![c].pc = "loadImage"]
  /\ UNCHANGED <<featureCache, settled, cleared, callVars, retryVars, clientVars>>

\* tf.ready() or mobilenet.load() rejects: the call rejects with that error
ModelLoadFails(c) ==
  /\ extraction[c].pc = "loadModel"
  /\ ~model
  /\ extraction' = [extraction EXCEPT ![c].pc = "threw"]
  /\ UNCHANGED <<featureCache, model, settled, cleared, callVars, retryVars, clientVars>>

\* loadImageFromUrl resolves; model.infer and tf.squeeze run, and the call
\* awaits the tensor's data
ImageLoaded(c) ==
  /\ extraction[c].pc = "loadImage"
  /\ extraction' = [extraction EXCEPT ![c].pc = "data", ![c].ranInference = TRUE]
  /\ UNCHANGED <<featureCache, model, settled, cleared, callVars, retryVars, clientVars>>

\* loadImageFromUrl rejects: the call rejects with 'Failed to extract features'
ImageLoadFails(c) ==
  /\ extraction[c].pc = "loadImage"
  /\ extraction' = [extraction EXCEPT ![c].pc = "threw"]
  /\ UNCHANGED <<featureCache, model, settled, cleared, callVars, retryVars, clientVars>>

\* the data arrives: the vector is put into the cache and returned
StoreFeatures(c) ==
  /\ extraction[c].pc = "data"
  /\ LET features == FeatureOf(extraction[c].imageUrl)
     IN  /\ featureCache' = MapSet(featureCache, extraction[c].imageUrl, features)
         /\ extraction' = [extraction EXCEPT ![c].pc = "returned",
                                             ![c].features = Some(features)]
  /\ settled' = settled \cup {extraction[c].imageUrl}
  /\ UNCHANGED <<model, cleared, callVars, retryVars, clientVars>>

ClearFeatureCache ==
  /\ featureCache' = EmptyMap
  /\ settled' = {}
  /\ cleared' = ImageUrls
  /\ UNCHANGED <<model, extraction, callVars, retryVars, clientVars>>

ServiceNext ==
  \/ \E c \in Callers, imageUrl \in ImageUrls : ExtractImageFeatures(c, imageUrl)
  \/ \E c \in Callers : ModelLoaded(c)
  \/ \E c \in Callers : ModelLoadFails(c)
  \/ \E c \in Callers : ImageLoaded(c)
  \/ \E c \in Callers : ImageLoadFails(c)
  \/ \E c \in Callers : StoreFeatures(c)
  \/ ClearFeatureCache

ServiceSpec == ServiceStart /\ [][ServiceNext]_vars

\* the capacity a bounded cache would be configured with: any number below
\* the number of distinct urls offered (the service configures none)
CacheCapacity == MaxUrls - 1

\* C15 (Bounded cache): after any sequence of extractions and clears the cache
\* never holds more entries than its capacity.
C15_BoundedCache == Cardinality(DOMAIN featureCache) <= CacheCapacity

\* C16 (Read-through cache): a call started after an extraction of the same
\* url has returned, with no clear since, returns that vector without running
\* the inference; the first call for a url after a clear runs the inference.
C16_ReadThrough ==
  \A c \in Callers :
    extraction[c].pc = "returned" =>
      /\ extraction[c].afterSettled =>
           /\ ~extraction[c].ranInference
           /\ extraction[c].features = Some(FeatureOf(extraction[c].imageUrl))
      /\ extraction[c].afterClear => extraction[c].ranInference

\* the entry the cache holds for a url
Entry(map, url) == IF MapHas(map, url) THEN Some(MapGet(map, url)) ELSE None

\* two calls for one url that both missed the cache before either stored, have
\* both returned, and no clear has run since they started
RacedPair(c, d) ==
  /\ c # d
  /\ extraction[c].pc = "returned" /\ extraction[d].pc = "returned"
  /\ extraction[c].raced /\ extraction[d].raced
  /\ extraction[c].imageUrl = extraction[d].imageUrl
  /\ extraction[c].imageUrl \notin cleared

\* C17 (Cache miss race): two overlapping calls for one url that both miss
\* both return the vector of that url and leave one cache entry holding it; a
\* call that stores its vector changes the entry of no other url; a call in
\* flight can always take its next step.
C17_MissRace ==
  /\ [](\A c, d \in Callers :
          RacedPair(c, d) =>
            /\ extraction[c].features = Some(FeatureOf(extraction[c].imageUrl))
            /\ extraction[d].features = Some(FeatureOf(extraction[c].imageUrl))
            /\ Entry(featureCache, extraction[c].imageUrl)
                 = Some(FeatureOf(extraction[c].imageUrl)))
  /\ [][\A c \in Callers :
          extraction[c].pc = "data" /\ extraction'[c].pc = "returned" =>
            \A u \in ImageUrls \ {extraction[c].imageUrl} :
              Entry(featureCache', u) = Entry(featureCache, u)]_vars
  /\ [](\A c \in Callers : InFlight(c) =>
          ENABLED (ModelLoaded(c) \/ ImageLoaded(c) \/ StoreFeatures(c)))

\* C17 witness: both callers missed on the same url while the other url was
\* cached, both have returned, and the cache holds both urls
C17_Witness ==
  /\ RacedPair("first", "second")
  /\ extraction["first"].ranInference /\ extraction["second"].ranInference
  /\ DOMAIN featureCache = ImageUrls

----------------------------------------------------------------------------
(* network.utils.ts: withRetry(fn, retries, delay).  The recursion is kept *)
(* as the arguments of the innermost invocation; fn is any function that   *)
(* resolves or rejects each time it is called.                             *)

MaxRetries == 3

\* fn is called at most this often in a run of the model
MaxAttempts == MaxRetries + 2

\* the `retries` a caller passes: the default 3, smaller counts, and a
\* negative number
RetriesArguments == -1..MaxRetries

DelayArguments == {0, 500, 1000}

\* withRetry(fn, r, d) is called
RetryStart ==
  /\ NoCall /\ ServiceInit /\ ClientsIdle
  /\ \E r \in RetriesArguments, d \in DelayArguments :
       /\ retries = r
       /\ delay = d
       /\ attempt = [pc |-> "fn", calls |-> 0, given |-> r, error |-> 0, value |-> 0]

\* `return await fn()`: the call of fn number calls + 1 resolves with a value
FnResolves ==
  /\ attempt.pc = "fn"
  /\ attempt.calls < MaxAttempts
  /\ attempt' = [attempt EXCEPT !.pc = "resolved", !.calls = @ + 1,
                                !.value = attempt.calls + 1]
  /\ UNCHANGED <<retries, delay, callVars, serviceVars, clientVars>>

\* fn rejects: with `retries === 0` the error is thrown on, otherwise the
\* invocation waits for `delay` ms
FnRejects ==
  /\ attempt.pc = "fn"
  /\ attempt.calls < MaxAttempts
  /\ attempt' = [attempt EXCEPT !.pc = IF retries = 0 THEN "rejected" ELSE "wait",
                                !.calls = @ + 1,
                                !.error = attempt.calls + 1]
  /\ UNCHANGED <<retries, delay, callVars, serviceVars, clientVars>>

\* the timer fires: withRetry(fn, retries - 1, delay * 2)
TimerFires ==
  /\ attempt.pc = "wait"
  /\ retries' = retries - 1
  /\ delay' = delay * 2
  /\ attempt' = [attempt EXCEPT !.pc = "fn"]
  /\ UNCHANGED <<callVars, serviceVars, clientVars>>

RetryNext == FnResolves \/ FnRejects \/ TimerFires

RetrySpec == RetryStart /\ [][RetryNext]_vars

\* C20: withRetry calls fn at most retries + 1 times whatever `retries` is
\* given, returns the first success without calling fn again, and rejects
\* with the error of the last of its retries + 1 calls.
C20_BoundedRetry ==
  /\ attempt.calls <= attempt.given + 1
  /\ attempt.pc = "resolved" => attempt.value = attempt.calls
  /\ attempt.pc = "rejected" =>
       attempt.error = attempt.calls /\ attempt.calls = attempt.given + 1

----------------------------------------------------------------------------
(* OpenAIService (packages/core/src/services/openai.service.ts).           *)
(*                                                                         *)
(* An error is a record: message (a string), status (error.response.status *)
(* of an API error; 0 where the error has no response), and, for the       *)
(* errors built by createOpenAIError, type and originalError.              *)

MAX_RETRIES == 3

RATE_LIMIT_ERROR == "RATE_LIMIT_ERROR"
TIMEOUT_ERROR == "TIMEOUT_ERROR"
AUTH_ERROR == "AUTH_ERROR"
INVALID_REQUEST == "INVALID_REQUEST"
SERVER_ERROR == "SERVER_ERROR"
CONNECTION_ERROR == "CONNECTION_ERROR"
UNKNOWN_ERROR == "UNKNOWN_ERROR"

\* new Error(message) thrown by the API client (status 0: no response)
ApiError(message, status) == [message |-> message, status |-> status]

\* the Error has a message only: `type` and `originalError` are set on it,
\* `response` is not
createOpenAIError(message, type, originalError) ==
  [message |-> message, status |-> 0, type |-> type,
   originalError |-> originalError]

Digits == <<"0", "1", "2", "3", "4", "5", "6", "7", "8", "9">>

\* `${n}` of an integer
RECURSIVE NumberText(_)
NumberText(n) ==
  IF n < 0 THEN <<"-">> \o NumberText(0 - n)
  ELSE IF n < 10 THEN <<Digits[n + 1]>>
  ELSE NumberText(n \div 10) \o <<Digits[(n % 10) + 1]>>

getErrorType(error) ==
  LET message == toLowerCase(error.message)
      status == error.status
  IN  IF includes(message, <<"r", "a", "t", "e", " ", "l", "i", "m", "i", "t">>) \/ status = 429
        THEN RATE_LIMIT_ERROR
      ELSE IF includes(message, <<"t", "i", "m", "e", "o", "u", "t">>) \/ includes(message, <<"t", "i", "m", "e", "d", " ", "o", "u", "t">>)
        THEN TIMEOUT_ERROR
      ELSE IF \/ includes(message, <<"a", "p", "i", " ", "k", "e", "y">>)
              \/ includes(message, <<"a", "u", "t", "h", "e", "n", "t", "i", "c", "a", "t", "i", "o", "n">>)
              \/ status = 401
        THEN AUTH_ERROR
      ELSE IF status >= 400 /\ status < 500 THEN INVALID_REQUEST
      ELSE IF status >= 500 THEN SERVER_ERROR
      ELSE IF includes(message, <<"n", "e", "t", "w", "o", "r", "k">>) \/ includes(message, <<"c", "o", "n", "n", "e", "c", "t", "i", "o", "n">>)
        THEN CONNECTION_ERROR
      ELSE UNKNOWN_ERROR

\* the failures of the API function that are drawn: every type is reached
\* through the message, and every status-dependent type through the status
\* alone
ApiErrors ==
  { ApiError(<<"R", "a", "t", "e", " ", "l", "i", "m", "i", "t", " ", "r", "e", "a", "c", "h", "e", "d">>, 429),
    ApiError(<<"T", "o", "o", " ", "M", "a", "n", "y", " ", "R", "e", "q", "u", "e", "s", "t", "s">>, 429),
    ApiError(<<"R", "e", "q", "u", "e", "s", "t", " ", "t", "i", "m", "e", "d", " ", "o", "u", "t">>, 0),
    ApiError(<<"I", "n", "c", "o", "r", "r", "e", "c", "t", " ", "A", "P", "I", " ", "k", "e", "y">>, 401),
    ApiError(<<"U", "n", "a", "u", "t", "h", "o", "r", "i", "z", "e", "d">>, 401),
    ApiError(<<"N", "o", "t", " ", "F", "o", "u", "n", "d">>, 404),
    ApiError(<<"B", "a", "d", " ", "G", "a", "t", "e", "w", "a", "y">>, 502),
    ApiError(<<"C", "o", "n", "n", "e", "c", "t", "i", "o", "n", " ", "e", "r", "r", "o", "r">>, 0),
    ApiError(<<"A", "b", "o", "r", "t", "e", "d">>, 0) }

MaxApiRetries == 3
MaxRetriesArguments == -1..MaxApiRetries

OpenAIOps == {"callWithRetry", "analyzeBoatImage", "compareBoats"}

\* the call rejects with error e
Rejects(o, e) == [o EXCEPT !.pc = "rejected", !.error = Some(e)]

\* an error thrown inside the try block of analyzeBoatImage or compareBoats
\* is caught, classified again and wrapped; callWithRetry called on its own
\* rejects with the error as thrown
Throws(o, e) ==
  IF o.op = "analyzeBoatImage"
    THEN Rejects(o, createOpenAIError(<<"F", "a", "i", "l", "e", "d", " ", "t", "o", " ", "a", "n", "a", "l", "y", "z", "e", " ", "i", "m", "a", "g", "e", ":", " ">> \o e.message,
                                      getErrorType(e), Some(e)))
  ELSE IF o.op = "compareBoats"
    THEN Rejects(o, createOpenAIError(<<"F", "a", "i", "l", "e", "d", " ", "t", "o", " ", "c", "o", "m", "p", "a", "r", "e", " ", "b", "o", "a", "t", "s", ":", " ">> \o e.message,
                                      getErrorType(e), Some(e)))
  ELSE Rejects(o, e)

\* for (let attempt = 0; attempt <= maxRetries; ...): the test of the loop,
\* and the throw behind the loop
LoopTest(o) ==
  IF o.attempt <= o.maxRetries
    THEN [o EXCEPT !.pc = "api"]
    ELSE Throws(o, createOpenAIError(<<"U", "n", "e", "x", "p", "e", "c", "t", "e", "d", " ", "e", "r", "r", "o", "r", " ", "i", "n", " ", "r", "e", "t", "r", "y", " ", "l", "o", "g", "i", "c">>,
                                     UNKNOWN_ERROR, None))

\* the catch block of callWithRetry, with the caught error
Catch_RetryAll(o, error) ==
  LET errorType == getErrorType(error)
      failed == [o EXCEPT !.failure = Some(errorType)]
  IN  IF o.attempt = o.maxRetries
        THEN Throws(failed,
               createOpenAIError(<<"F", "a", "i", "l", "e", "d", " ", "a", "f", "t", "e", "r", " ">> \o NumberText(o.maxRetries)
                                   \o <<" ", "a", "t", "t", "e", "m", "p", "t", "s", ":", " ">> \o error.message,
                                 errorType, Some(error)))
        ELSE [failed EXCEPT !.pc = "backoff"]

Catch(o, error) ==
  LET errorType == getErrorType(error)
      failed == [o EXCEPT !.failure = Some(errorType)]
  IN  IF errorType = AUTH_ERROR \/ errorType = INVALID_REQUEST
        THEN Throws(failed,
               createOpenAIError(<<"O", "p", "e", "n", "A", "I", " ", "A", "P", "I", " ", "e", "r", "r", "o", "r", ":", " ">> \o error.message,
                                 errorType, Some(error)))
      ELSE IF o.attempt = o.maxRetries
        THEN Throws(failed,
               createOpenAIError(<<"F", "a", "i", "l", "e", "d", " ", "a", "f", "t", "e", "r", " ">> \o NumberText(o.maxRetries)
                                   \o <<" ", "a", "t", "t", "e", "m", "p", "t", "s", ":", " ">> \o error.message,
                                 errorType, Some(error)))
      ELSE [failed EXCEPT !.pc = "backoff"]

\* a call of one of the three methods, before its first statement
OpenAICall(op, maxRetries, given) ==
  [op |-> op, pc |-> "called", given |-> given, maxRetries |-> maxRetries,
   attempt |-> 0, calls |-> 0, failure |-> None, error |-> None]

OpenAIStart ==
  /\ NoCall /\ ServiceInit /\ NoRetry
  /\ NoRequest /\ NoLoader /\ NoAuth /\ NoHook
  /\ \/ \E r \in MaxRetriesArguments :
          openai = OpenAICall("callWithRetry", r, TRUE)
     \/ \E given \in BOOLEAN :
          openai = OpenAICall("analyzeBoatImage", MAX_RETRIES, given)
     \/ \E given \in BOOLEAN :
          openai = OpenAICall("compareBoats", MAX_RETRIES, given)

openaiOthers == <<callVars, serviceVars, retryVars, request, loader, auth, hook>>

\* callWithRetry(apiFunction, maxRetries) up to the first call of apiFunction
CallWithRetry ==
  /\ openai.pc = "called" /\ openai.op = "callWithRetry"
  /\ openai' = LoopTest(openai)
  /\ UNCHANGED openaiOthers

\* analyzeBoatImage(file) up to `await this.fileToBase64(file)`; the test of
\* the file stands before the try block
AnalyzeBoatImage ==
  /\ openai.pc = "called" /\ openai.op = "analyzeBoatImage"
  /\ openai' =
       IF ~openai.given
         THEN Rejects(openai, createOpenAIError(<<"N", "o", " ", "f", "i", "l", "e", " ", "p", "r", "o", "v", "i", "d", "e", "d">>,
                                                INVALID_REQUEST, None))
         ELSE [openai EXCEPT !.pc = "fileToBase64"]
  /\ UNCHANGED openaiOthers

\* reader.onload with a string result: callWithRetry is entered
FileConverted ==
  /\ openai.pc = "fileToBase64"
  /\ openai' = LoopTest(openai)
  /\ UNCHANGED openaiOthers

\* reader.onload with another result: fileToBase64 rejects inside the try
FileConversionFails ==
  /\ openai.pc = "fileToBase64"
  /\ openai' = Throws(openai, ApiError(<<"F", "a", "i", "l", "e", "d", " ", "t", "o", " ", "c", "o", "n", "v", "e", "r", "t", " ", "i", "m", "a", "g", "e", " ", "t", "o", " ", "b", "a", "s", "e", "6", "4">>, 0))
  /\ UNCHANGED openaiOthers

\* compareBoats(boat1, boat2) up to the call of apiFunction; the test of the
\* boats stands inside the try block
CompareBoats ==
  /\ openai.pc = "called" /\ openai.op = "compareBoats"
  /\ openai' =
       IF ~openai.given
         THEN Throws(openai,
                createOpenAIError(<<"M", "i", "s", "s", "i", "n", "g", " ", "b", "o", "a", "t", " ", "i", "n", "f", "o", "r", "m", "a", "t", "i", "o", "n", " ", "f", "o", "r", " ", "c", "o", "m", "p", "a", "r", "i", "s", "o", "n">>,
                                  INVALID_REQUEST, None))
         ELSE LoopTest(openai)
  /\ UNCHANGED openaiOthers

\* `return await apiFunction()` resolves
ApiResolves ==
  /\ openai.pc = "api"
  /\ openai' = [openai EXCEPT !.pc = "resolved", !.calls = @ + 1]
  /\ UNCHANGED openaiOthers

\* apiFunction rejects with error e: the catch block of callWithRetry
ApiRejects(e) ==
  /\ openai.pc = "api"
  /\ openai' = Catch([openai EXCEPT !.calls = @ + 1], e)
  /\ UNCHANGED openaiOthers

\* the setTimeout of the backoff resolves: attempt++ and the loop test
BackoffElapses ==
  /\ openai.pc = "backoff"
  /\ openai' = LoopTest([openai EXCEPT !.attempt = @ + 1])
  /\ UNCHANGED openaiOthers

OpenAINext ==
  \/ CallWithRetry
  \/ AnalyzeBoatImage
  \/ FileConverted
  \/ FileConversionFails
  \/ CompareBoats
  \/ ApiResolves
  \/ \E e \in ApiErrors : ApiRejects(e)
  \/ BackoffElapses

OpenAISpec == OpenAIStart /\ [][OpenAINext]_vars

NoRetryTypes == {AUTH_ERROR, INVALID_REQUEST}

\* C21 (Retry of the API call): callWithRetry never calls the API function
\* again after a failure classified as AUTH_ERROR or INVALID_REQUEST (the call
\* has rejected, with that type), and whatever the failures it has made at most
\* maxRetries + 1 calls, rejecting once the last of them failed.
C21_ApiRetry ==
  /\ openai.calls <= openai.maxRetries + 1
  /\ Present(openai.failure) /\ openai.failure[1] \in NoRetryTypes =>
       openai.pc = "rejected"
  /\ Present(openai.failure) /\ openai.calls = openai.maxRetries + 1 =>
       openai.pc \in {"rejected", "resolved"}

\* a failure was retried, the next one was classified AUTH_ERROR, and the
\* call rejected although retries were left
C21_Witness ==
  /\ openai.op = "callWithRetry" /\ openai.pc = "rejected"
  /\ openai.maxRetries = MaxApiRetries
  /\ openai.failure = Some(AUTH_ERROR) /\ openai.calls = 2

\* the retries were used up: maxRetries + 1 calls, all failed
C21_Exhausted ==
  /\ openai.op = "callWithRetry" /\ openai.pc = "rejected"
  /\ openai.maxRetries = MaxApiRetries
  /\ openai.failure = Some(SERVER_ERROR)
  /\ openai.calls = MaxApiRetries + 1

\* the error a method has rejected with, and the error it wraps
RejectedError == openai.error[1]
Underlying == RejectedError.originalError[1]

\* the failure was classified before the method's own catch block saw it
FirstClassified ==
  /\ openai.op \in {"analyzeBoatImage", "compareBoats"}
  /\ openai.pc = "rejected"
  /\ Present(RejectedError.originalError)
  /\ "type" \in DOMAIN Underlying

\* C22 (Error type of a rejection): the error with which analyzeBoatImage or
\* compareBoats rejects carries the type that was assigned to the underlying
\* failure when it was first classified, by callWithRetry or by the explicit
\* INVALID_REQUEST for missing boats.
C22_ErrorTypeKept ==
  FirstClassified => RejectedError.type = Underlying.type

----------------------------------------------------------------------------
(* Requests: fetchWithTimeout, get, post, put and patch of                 *)
(* packages/core/src/utils/network.utils.ts, and fetchWithTimeout of       *)
(* utils/fetchUtils.                                                       *)
(*                                                                         *)
(* An object (options, headers, the init object handed to fetch) is a      *)
(* function from its own keys to their values.                             *)

\* { ...a, ...b }
Spread(a, b) ==
  [k \in DOMAIN a \cup DOMAIN b |-> IF k \in DOMAIN b THEN b[k] ELSE a[k]]

\* const { timeout, ...fetchOptions } = options
Rest(options, key) == [k \in DOMAIN options \ {key} |-> options[k]]

HeaderSets ==
  { EmptyMap,
    [k \in {"Authorization"} |-> "Bearer token"],
    [k \in {"Content-Type"} |-> "text/plain"],
    [k \in {"Authorization", "Content-Type"} |->
       IF k = "Content-Type" THEN "text/plain" ELSE "Bearer token"] }

\* the options a caller passes: with or without headers, with or without a
\* timeout
OptionsArguments ==
  {EmptyMap, [k \in {"timeout"} |-> 5000]}
    \cup {[k \in {"headers"} |-> h] : h \in HeaderSets}
    \cup {[k \in {"headers", "timeout"} |->
             IF k = "headers" THEN h ELSE 5000] : h \in HeaderSets}

\* plain object, string, FormData, null
DataArguments == {"object", "string", "FormData", "null"}

\* typeof data === 'object'
TypeofObject(data) == data \in {"object", "FormData", "null"}

\* options.headers ? { ...options.headers } : {}
HeadersCopy(options) ==
  IF "headers" \in DOMAIN options THEN options["headers"] ELSE EmptyMap

\* !headers['Content-Type']
NoContentType(headers) ==
  ~MapHas(headers, "Content-Type") \/ MapGet(headers, "Content-Type") = ""

\* the object post, put and patch hand to fetchWithTimeout
BodyRequest(method, data, options) ==
  LET copied == HeadersCopy(options)
      headers ==
        IF TypeofObject(data) /\ data # "null" /\ NoContentType(copied)
             /\ data # "FormData"
          THEN MapSet(copied, "Content-Type", "application/json")
          ELSE copied
      body ==
        IF TypeofObject(data) /\ data # "FormData"
          THEN <<"JSON.stringify", data>>
          ELSE <<data>>
      literal == [k \in {"method", "body", "headers"} |->
                    IF k = "method" THEN method
                    ELSE IF k = "body" THEN body
                    ELSE headers]
  IN  Spread(literal, options)

post(data, options) == BodyRequest("POST", data, options)
put(data, options) == BodyRequest("PUT", data, options)
patch(data, options) == BodyRequest("PATCH", data, options)
get(options) == Spread([k \in {"method"} |-> "GET"], options)

Helpers == {"post", "put", "patch", "get"}

\* a call of a helper of network.utils, or of fetchWithTimeout of fetchUtils,
\* before its first statement
RequestCall(module, helper, data, options) ==
  [module |-> module, helper |-> helper, data |-> data, options |-> options,
   pc |-> "called", init |-> EmptyMap, timer |-> "none", aborted |-> FALSE,
   expired |-> FALSE, late |-> FALSE, error |-> "none"]

RequestStart ==
  /\ NoCall /\ ServiceInit /\ NoRetry
  /\ NoOpenAI /\ NoLoader /\ NoAuth /\ NoHook
  /\ \/ \E h \in Helpers \ {"get"}, d \in DataArguments, o \in OptionsArguments :
          request = RequestCall("network.utils", h, d, o)
     \/ \E o \in OptionsArguments :
          request = RequestCall("network.utils", "get", "null", o)
     \/ \E o \in OptionsArguments :
          request = RequestCall("fetchUtils", "fetchWithTimeout", "null", o)

requestOthers == <<callVars, serviceVars, retryVars, openai, loader, auth, hook>>

RequestSettled == request.pc \in {"resolved", "rejected"}

\* the helper builds the options and calls fetchWithTimeout, which arms the
\* timer and calls fetch with the options less `timeout`
SendRequest ==
  /\ request.pc = "called"
  /\ LET passed ==
           IF request.module = "fetchUtils" THEN request.options
           ELSE IF request.helper = "post"
             THEN post(request.data, request.options)
           ELSE IF request.helper = "put"
             THEN put(request.data, request.options)
           ELSE IF request.helper = "patch"
             THEN patch(request.data, request.options)
           ELSE get(request.options)
     IN  request' = [request EXCEPT !.pc = "fetch", !.timer = "armed",
                                    !.init = Rest(passed, "timeout")]
  /\ UNCHANGED requestOthers

\* fetch resolves with a response.  network.utils: the timer is cleared, a
\* response that is not ok is thrown, otherwise the body is read.  fetchUtils:
\* the race is won by the response, which is the result.
ResponseArrives(ok) ==
  /\ request.pc = "fetch" /\ ~request.aborted
  /\ request' =
       IF request.module = "fetchUtils"
         THEN [request EXCEPT !.pc = "resolved"]
       ELSE IF ~ok
         THEN [request EXCEPT !.pc = "rejected", !.timer = "cleared",
                              !.error = "HTTP error"]
       ELSE [request EXCEPT !.pc = "body", !.timer = "cleared"]
  /\ UNCHANGED requestOthers

\* fetch rejects for a reason of its own (a network failure)
FetchRejects ==
  /\ request.pc = "fetch" /\ ~request.aborted
  /\ request' =
       [request EXCEPT !.pc = "rejected", !.error = "fetch failed",
                       !.timer = IF request.module = "fetchUtils"
                                   THEN @ ELSE "cleared"]
  /\ UNCHANGED requestOthers

\* the aborted fetch rejects with an AbortError, which the catch block turns
\* into the timeout error
AbortRejects ==
  /\ request.pc = "fetch" /\ request.aborted
  /\ request' = [request EXCEPT !.pc = "rejected", !.timer = "cleared",
                                !.error = "timeout"]
  /\ UNCHANGED requestOthers

\* response.json(), text() or blob() resolves
BodyParsed ==
  /\ request.pc = "body"
  /\ request' = [request EXCEPT !.pc = "resolved"]
  /\ UNCHANGED requestOthers

\* response.json(), text() or blob() rejects
BodyRejects ==
  /\ request.pc = "body"
  /\ request' = [request EXCEPT !.pc = "rejected", !.timer = "cleared",
                                !.error = "body failed"]
  /\ UNCHANGED requestOthers

\* `timeout` ms have passed since fetchWithTimeout was called.  An armed timer
\* runs its callback: controller.abort() in network.utils, reject(...) in
\* fetchUtils, where the timer is never cleared.
TimeoutElapses ==
  /\ request.pc # "called" /\ ~request.expired
  /\ LET fires == request.timer = "armed"
         timed == [request EXCEPT !.expired = TRUE, !.late = ~RequestSettled,
                                  !.timer = IF fires THEN "fired" ELSE @]
     IN  request' =
           IF ~fires THEN timed
           ELSE IF request.module = "network.utils"
             THEN [timed EXCEPT !.aborted = TRUE]
           ELSE IF RequestSettled THEN timed
           ELSE [timed EXCEPT !.pc = "rejected", !.error = "timeout"]
  /\ UNCHANGED requestOthers

RequestNext ==
  \/ SendRequest
  \/ \E ok \in BOOLEAN : ResponseArrives(ok)
  \/ FetchRejects
  \/ AbortRejects
  \/ BodyParsed
  \/ BodyRejects
  \/ TimeoutElapses

RequestSpec == RequestStart /\ [][RequestNext]_vars

\* the abort has reached the controller and the rejection of fetch follows
AbortUnderWay == request.pc = "fetch" /\ request.aborted

\* C23 (Timeout of a request): a fetchWithTimeout call that had not delivered
\* its result when `timeout` ms had passed since its start is rejected with
\* the timeout error (or the abort that rejects it is under way): it does not
\* stay pending.
C23_TimeoutRejects ==
  request.late =>
    \/ request.pc = "rejected" /\ request.error = "timeout"
    \/ AbortUnderWay

\* the headers of the caller's options do not specify a Content-Type
CallerOmitsContentType ==
  "headers" \in DOMAIN request.options =>
    "Content-Type" \notin DOMAIN request.options["headers"]

SentHeaders ==
  IF "headers" \in DOMAIN request.init THEN request.init["headers"]
  ELSE EmptyMap

\* C24 (JSON content type): post, put and patch called with a plain-object body
\* send the request with Content-Type: application/json whenever the caller's
\* headers do not specify a Content-Type.
C24_JsonContentType ==
  /\ request.helper \in {"post", "put", "patch"}
  /\ request.data = "object"
  /\ request.pc # "called"
  /\ CallerOmitsContentType
  => /\ MapHas(SentHeaders, "Content-Type")
     /\ MapGet(SentHeaders, "Content-Type") = "application/json"

----------------------------------------------------------------------------
(* loadModel of TensorFlowService (this.model) and of tensorflow.utils     *)
(* (mobileNetModel, modelLoadPromise).                                     *)
(*                                                                         *)
(* Every call of mobilenet.load is an entry of loader.loads; the model it  *)
(* resolves with is named by the entry's index, and 0 stands for null.     *)

MaxLoads == 3

Implementations == {"TensorFlowService", "tensorflow.utils"}

NotLoading == [pc |-> "idle"]

LoaderStart ==
  /\ NoCall /\ ServiceInit /\ NoRetry
  /\ NoOpenAI /\ NoRequest /\ NoAuth /\ NoHook
  /\ loader = [model |-> 0, mobileNetModel |-> 0, modelLoadPromise |-> 0,
               loads |-> <<>>, calls |-> [c \in Callers |-> NotLoading]]

loaderOthers == <<callVars, serviceVars, retryVars, openai, request, auth, hook>>

\* a caller has no loadModel call running
Unoccupied(c) == loader.calls[c].pc \in {"idle", "returned", "threw"}

\* mobilenet.load({...}) called by caller c
StartLoad(loads, impl, c) ==
  Append(loads, [impl |-> impl, by |-> c, status |-> "loading"])

\* the calls that return the promise of load i
Sharing(i) ==
  {c \in Callers : loader.calls[c].pc = "shared" /\ loader.calls[c].load = i}

\* loadModel of tensorflow.utils up to its first await or return
LoadModel(c) ==
  /\ Unoccupied(c)
  /\ IF loader.mobileNetModel # 0
       THEN loader' = [loader EXCEPT !.calls[c] =
              [pc |-> "returned", impl |-> "tensorflow.utils",
               got |-> loader.mobileNetModel]]
     ELSE IF loader.modelLoadPromise # 0
       THEN loader' = [loader EXCEPT !.calls[c] =
              [pc |-> "shared", impl |-> "tensorflow.utils",
               load |-> loader.modelLoadPromise]]
     ELSE /\ Len(loader.loads) < MaxLoads
          /\ loader' = [loader EXCEPT
               !.loads = StartLoad(@, "tensorflow.utils", c),
               !.modelLoadPromise = Len(loader.loads) + 1,
               !.calls[c] = [pc |-> "load", impl |-> "tensorflow.utils",
                             load |-> Len(loader.loads) + 1]]
  /\ UNCHANGED loaderOthers

\* TensorFlowService.loadModel up to `await tf.ready()` or its return
ServiceLoadModel(c) ==
  /\ Unoccupied(c)
  /\ loader' = [loader EXCEPT !.calls[c] =
       IF loader.model = 0
         THEN [pc |-> "ready", impl |-> "TensorFlowService"]
         ELSE [pc |-> "returned", impl |-> "TensorFlowService",
               got |-> loader.model]]
  /\ UNCHANGED loaderOthers

\* tf.ready() resolves: mobilenet.load is called
TfReady(c) ==
  /\ loader.calls[c].pc = "ready"
  /\ Len(loader.loads) < MaxLoads
  /\ loader' = [loader EXCEPT
       !.loads = StartLoad(@, "TensorFlowService", c),
       !.calls[c] = [pc |-> "load", impl |-> "TensorFlowService",
                     load |-> Len(loader.loads) + 1]]
  /\ UNCHANGED loaderOthers

\* load i resolves with its model: the call that started it stores the model
\* and returns it, and so do the calls that returned its promise
LoadResolves(i) ==
  /\ i \in DOMAIN loader.loads /\ loader.loads[i].status = "loading"
  /\ LET impl == loader.loads[i].impl
         receivers == {loader.loads[i].by} \cup Sharing(i)
     IN  loader' = [loader EXCEPT
           !.loads[i].status = "loaded",
           !.model = IF impl = "TensorFlowService" THEN i ELSE @,
           !.mobileNetModel = IF impl = "tensorflow.utils" THEN i ELSE @,
           !.calls = [c \in Callers |->
                        IF c \in receivers
                          THEN [pc |-> "returned", impl |-> impl, got |-> i]
                          ELSE @[c]]]
  /\ UNCHANGED loaderOthers

\* load i rejects: the call that started it rethrows (tensorflow.utils resets
\* modelLoadPromise first), and the calls that returned its promise reject
LoadRejects(i) ==
  /\ i \in DOMAIN loader.loads /\ loader.loads[i].status = "loading"
  /\ LET impl == loader.loads[i].impl
         receivers == {loader.loads[i].by} \cup Sharing(i)
     IN  loader' = [loader EXCEPT
           !.loads[i].status = "failed",
           !.modelLoadPromise = IF impl = "tensorflow.utils" THEN 0 ELSE @,
           !.calls = [c \in Callers |->
                        IF c \in receivers
                          THEN [pc |-> "threw", impl |-> impl]
                          ELSE @[c]]]
  /\ UNCHANGED loaderOthers

LoaderNext ==
  \/ \E c \in Callers : LoadModel(c)
  \/ \E c \in Callers : ServiceLoadModel(c)
  \/ \E c \in Callers : TfReady(c)
  \/ \E i \in 1..MaxLoads : LoadResolves(i)
  \/ \E i \in 1..MaxLoads : LoadRejects(i)

LoaderSpec == LoaderStart /\ [][LoaderNext]_vars

\* the loads of an implementation that are in progress or have succeeded
Live(impl) ==
  {i \in DOMAIN loader.loads :
     /\ loader.loads[i].impl = impl
     /\ loader.loads[i].status \in {"loading", "loaded"}}

\* the callers whose loadModel call of an implementation has returned a model
Served(impl) ==
  {c \in Callers : loader.calls[c].pc = "returned" /\ loader.calls[c].impl = impl}

\* the next loadModel call of the implementation would start a load
WouldLoad(impl) ==
  IF impl = "TensorFlowService" THEN loader.model = 0
  ELSE loader.mobileNetModel = 0 /\ loader.modelLoadPromise = 0

SingleFlight(impl) ==
  /\ Cardinality(Live(impl)) <= 1
  /\ \A c, d \in Served(impl) : loader.calls[c].got = loader.calls[d].got
  /\ Live(impl) = {} => WouldLoad(impl)

\* C25 (Single-flight model load): in both implementations at most one load is
\* in progress or has succeeded, however the loadModel calls overlap, all
\* callers that were served received the same model, and when every load so
\* far has failed the next call starts a new one.
C25_SingleFlight == \A impl \in Implementations : SingleFlight(impl)

----------------------------------------------------------------------------
(* AuthApiClient (api/src/clients/auth.api, part_002): the stored tokens and *)
(* the login, logout and refreshTokens calls in progress.                  *)
(*                                                                         *)
(* auth.item is the item 'auth_tokens' of localStorage, or the global      *)
(* __AUTH_TOKENS__: None (absent) or Some(string).  A tokens object is a   *)
(* function from its keys to strings.                                      *)

\* JSON.stringify of a tokens object
JSONstringify(tokens) == [json |-> tokens]

\* a string that is not JSON text
Corrupt == [text |-> "{"]

\* the string is the JSON text of an object
IsJSON(string) == "json" \in DOMAIN string

\* JSON.parse of such a string
JSONparse(string) == string.json

\* where the tokens are kept: window.localStorage, the global object, or
\* (neither being defined) nowhere
Environments == {"localStorage", "global", "none"}

TokenSets ==
  { [k \in {"accessToken", "refreshToken"} |->
       IF k = "accessToken" THEN "access 1" ELSE "refresh 1"],
    [k \in {"accessToken", "refreshToken"} |->
       IF k = "accessToken" THEN "access 2" ELSE "refresh 2"],
    [k \in {"accessToken"} |-> "access 3"],
    [k \in {"refreshToken"} |-> "refresh 4"] }

\* variant: the tokens are left in place
clearTokens_Keep(env, item) == item

clearTokens(env, item) == IF env = "none" THEN item ELSE None

storeTokens(env, item, tokens) ==
  IF env = "none" THEN item ELSE Some(JSONstringify(tokens))

\* null (None) where there is no item and where the item does not parse
getTokens(env, item) ==
  IF env = "none" \/ ~Present(item) THEN None
  ELSE IF ~IsJSON(item[1]) THEN None
  ELSE Some(JSONparse(item[1]))

\* tokens?.key, as a truth value
Has(tokens, key) ==
  Present(tokens) /\ key \in DOMAIN tokens[1] /\ tokens[1][key] # ""

isAuthenticated == Has(getTokens(auth.env, auth.item), "accessToken")

AuthStart ==
  /\ NoCall /\ ServiceInit /\ NoRetry
  /\ NoOpenAI /\ NoRequest /\ NoLoader /\ NoHook
  /\ \E env \in Environments :
     \E item \in {None, Some(Corrupt)}
                   \cup {Some(JSONstringify(t)) : t \in TokenSets} :
       /\ env = "none" => item = None
       /\ auth = [env |-> env, item |-> item, login |-> "idle",
                  logout |-> "idle", refresh |-> "idle", last |-> "none"]

authOthers == <<callVars, serviceVars, retryVars, openai, request, loader, hook>>

\* login(credentials) up to `await post(...)`
Login ==
  /\ auth.login = "idle"
  /\ auth' = [auth EXCEPT !.login = "pending", !.last = "login called"]
  /\ UNCHANGED authOthers

\* the login request resolves; data.tokens is None where the response has none
LoginResolves(tokens) ==
  /\ auth.login = "pending"
  /\ auth' = [auth EXCEPT
       !.login = "idle", !.last = "login resolved",
       !.item = IF Present(tokens) THEN storeTokens(auth.env, @, tokens[1])
                ELSE @]
  /\ UNCHANGED authOthers

LoginRejects ==
  /\ auth.login = "pending"
  /\ auth' = [auth EXCEPT !.login = "idle", !.last = "login rejected"]
  /\ UNCHANGED authOthers

\* logout() up to `await post(...)`
Logout ==
  /\ auth.logout = "idle"
  /\ auth' = [auth EXCEPT !.logout = "pending", !.last = "logout called"]
  /\ UNCHANGED authOthers

\* the logout request resolves: this.clearTokens(); return response
LogoutResolves ==
  /\ auth.logout = "pending"
  /\ auth' = [auth EXCEPT !.logout = "idle", !.last = "logout resolved",
                          !.item = clearTokens(auth.env, @)]
  /\ UNCHANGED authOthers

\* the logout request rejects: the catch block clears the tokens and rethrows
LogoutRejects ==
  /\ auth.logout = "pending"
  /\ auth' = [auth EXCEPT !.logout = "idle", !.last = "logout rejected",
                          !.item = clearTokens(auth.env, @)]
  /\ UNCHANGED authOthers

\* refreshTokens() up to `await post(...)`, or, without a refresh token, to
\* the throw inside the try and the catch block behind it
RefreshTokens ==
  /\ auth.refresh = "idle"
  /\ auth' =
       IF ~Has(getTokens(auth.env, auth.item), "refreshToken")
         THEN [auth EXCEPT !.last = "refresh rejected",
                           !.item = clearTokens(auth.env, @)]
         ELSE [auth EXCEPT !.refresh = "pending", !.last = "refresh called"]
  /\ UNCHANGED authOthers

\* the refresh request resolves; data is None where the response has none
RefreshResolves(data) ==
  /\ auth.refresh = "pending"
  /\ auth' = [auth EXCEPT
       !.refresh = "idle", !.last = "refresh resolved",
       !.item = IF Present(data) THEN storeTokens(auth.env, @, data[1])
                ELSE @]
  /\ UNCHANGED authOthers

\* the refresh request rejects: the catch block clears the tokens and rethrows
RefreshRejects ==
  /\ auth.refresh = "pending"
  /\ auth' = [auth EXCEPT !.refresh = "idle", !.last = "refresh rejected",
                          !.item = clearTokens(auth.env, @)]
  /\ UNCHANGED authOthers

Responses == {None} \cup {Some(t) : t \in TokenSets}

AuthNext ==
  \/ Login
  \/ \E tokens \in Responses : LoginResolves(tokens)
  \/ LoginRejects
  \/ Logout
  \/ LogoutResolves
  \/ LogoutRejects
  \/ RefreshTokens
  \/ \E data \in Responses : RefreshResolves(data)
  \/ RefreshRejects

AuthSpec == AuthStart /\ [][AuthNext]_vars

\* logout has just settled, or refreshTokens has just failed
SignedOut ==
  auth.last \in {"logout resolved", "logout rejected", "refresh rejected"}

\* C26 (Token state): when logout() has settled, the server call having
\* succeeded or failed, and when refreshTokens() has failed for any reason, no
\* tokens are stored and isAuthenticated() returns false.
C26_TokensCleared ==
  SignedOut => ~Present(auth.item) /\ ~isAuthenticated

\* the server call of logout has failed, under localStorage, while a refresh
\* of the tokens that were stored is in progress
C26_Witness ==
  /\ auth.last = "logout rejected"
  /\ auth.env = "localStorage"
  /\ auth.refresh = "pending"

----------------------------------------------------------------------------
(* useBoatComparison of boats-hooks (the hook that takes a boat service).  *)
(*                                                                         *)
(* hook.boats is the data of the 'boats' query ([] until it has loaded),   *)
(* hook.pending the compareBoats requests the service has not answered,    *)
(* hook.overtaken those of them sent before the latest change of the       *)
(* selection, and hook.late tells that the results shown are the answer to *)
(* such a request.                                                         *)
(* The state updates of one handler are one step.  The service answers a   *)
(* request for two boats it knows with the comparison of those two boats,  *)
(* or with null, or it rejects.                                            *)

MaxBoats == 3
MaxPending == 1

BoatIds == 1..MaxBoats
Boat(id) == [id |-> id]

\* the ids a caller may pass: those of the boats, and one of no boat
IdArguments == BoatIds \cup {0}

AllBoats == [i \in 1..MaxBoats |-> Boat(i)]

HookStart ==
  /\ NoCall /\ ServiceInit /\ NoRetry
  /\ NoOpenAI /\ NoRequest /\ NoLoader /\ NoAuth
  /\ hook = [boats |-> <<>>, selectedBoats |-> <<>>,
             comparisonResults |-> None, pending |-> {},
             overtaken |-> {}, late |-> FALSE]

hookOthers == <<callVars, serviceVars, retryVars, openai, request, loader, auth>>

\* boatService.getAllBoats resolves
BoatsLoaded ==
  /\ hook.boats = <<>>
  /\ hook' = [hook EXCEPT !.boats = AllBoats]
  /\ UNCHANGED hookOthers

\* prev.some(b => b.id === boatId)
some(prev, boatId) == \E i \in 1..Len(prev) : prev[i].id = boatId

\* prev.filter(b => b.id !== boatId)
RECURSIVE without(_, _)
without(prev, boatId) ==
  IF prev = <<>> THEN <<>>
  ELSE IF Head(prev).id # boatId
    THEN <<Head(prev)>> \o without(Tail(prev), boatId)
    ELSE without(Tail(prev), boatId)

\* the updater passed to setSelectedBoats by selectBoat
Updater(prev, boat) ==
  IF some(prev, boat.id) THEN without(prev, boat.id)
  ELSE IF Len(prev) >= 2 THEN <<prev[1], boat>>
  ELSE prev \o <<boat>>

\* variant: the results are kept
ResultsAfterSelect_Kept(results) == results

\* setComparisonResults(null)
ResultsAfterSelect(results) == None

selectBoat(boatId) ==
  /\ hook' =
       IF hook.boats = <<>> THEN hook
       ELSE IF ~some(hook.boats, boatId) THEN hook
       ELSE LET boat == hook.boats[CHOOSE i \in 1..Len(hook.boats) :
                                     /\ hook.boats[i].id = boatId
                                     /\ \A j \in 1..(i - 1) :
                                          hook.boats[j].id # boatId]
            IN  [hook EXCEPT
                   !.selectedBoats = Updater(@, boat),
                   !.comparisonResults = ResultsAfterSelect(@),
                   !.overtaken = hook.pending, !.late = FALSE]
  /\ UNCHANGED hookOthers

\* compareBoats(boat1Id, boat2Id): the request is sent once boats are loaded
compareBoats(boat1Id, boat2Id) ==
  /\ Cardinality(hook.pending \cup {<<boat1Id, boat2Id>>}) <= MaxPending
  /\ hook' =
       IF hook.boats = <<>> THEN hook
       ELSE [hook EXCEPT !.pending = @ \cup {<<boat1Id, boat2Id>>}]
  /\ UNCHANGED hookOthers

clearSelection ==
  /\ hook' = [hook EXCEPT !.selectedBoats = <<>>, !.comparisonResults = None,
                          !.overtaken = hook.pending, !.late = FALSE]
  /\ UNCHANGED hookOthers

\* the service resolves a request with the comparison of the two boats
ComparisonArrives(p) ==
  /\ p \in hook.pending
  /\ p[1] \in BoatIds /\ p[2] \in BoatIds
  /\ LET comparison == [boat1 |-> Boat(p[1]), boat2 |-> Boat(p[2])]
     IN  hook' = [hook EXCEPT
           !.pending = @ \ {p}, !.overtaken = @ \ {p},
           !.late = p \in hook.overtaken,
           !.selectedBoats = <<comparison.boat1, comparison.boat2>>,
           !.comparisonResults = Some(comparison)]
  /\ UNCHANGED hookOthers

\* the service resolves a request with null, or rejects it
NoComparison(p) ==
  /\ p \in hook.pending
  /\ hook' = [hook EXCEPT !.pending = @ \ {p}, !.overtaken = @ \ {p}]
  /\ UNCHANGED hookOthers

HookNext ==
  \/ BoatsLoaded
  \/ \E boatId \in IdArguments : selectBoat(boatId)
  \/ \E boat1Id, boat2Id \in IdArguments : compareBoats(boat1Id, boat2Id)
  \/ clearSelection
  \/ \E p \in IdArguments \X IdArguments : ComparisonArrives(p)
  \/ \E p \in IdArguments \X IdArguments : NoComparison(p)

HookSpec == HookStart /\ [][HookNext]_vars

\* C27 (Selection): after any sequence of selectBoat, compareBoats and
\* clearSelection events selectedBoats holds at most two boats and never the
\* same boat id twice.
C27_Selection ==
  /\ Len(hook.selectedBoats) <= 2
  /\ \A i, j \in 1..Len(hook.selectedBoats) :
       hook.selectedBoats[i].id = hook.selectedBoats[j].id => i = j

----------------------------------------------------------------------------
(* The feature cache after a clear.                                        *)

\* clearFeatureCache has run and no extractImageFeatures call has been
\* started since
NoCallSinceClear == cleared = ImageUrls

\* C29 (Cache stays cleared): after clearFeatureCache has run the feature
\* cache stays empty until a new extractImageFeatures call is started; an
\* extraction in flight at the clear does not put its entry into the cache
\* afterwards.
C29_StaysCleared == NoCallSinceClear => featureCache = EmptyMap

====
